---- MODULE Spec2Model ----
(***************************************************************************)
(* A model of the interactive learning tool (package learn):               *)
(*   - learn/parser.py   parse_readme, the marker parser                   *)
(*   - learn/ui.py       _split_page_segments, _strip_comments,            *)
(*                       _check_placeholders, _validate_challenge,         *)
(*                       _reset_challenge, render_page, run_quiz           *)
(*   - learn/progress.py update_streak and the progress document           *)
(*                                                                         *)
(* Text is a sequence of tokens. A token is a maximal piece of text that   *)
(* the regular expressions of the program can only match as a whole        *)
(* ("<!--", "lesson:page", "![", ...) or a single character (" ", "\n",    *)
(* a letter). Each regular expression is translated token for token.       *)
(* In the parser every token carries the offset it has in the source file  *)
(* (field p), so that where a piece of a page comes from can be stated.    *)
(***************************************************************************)
EXTENDS Integers, Sequences, FiniteSets, TLC

VARIABLES
    \* ---- learn/parser.py and the page segmentation of learn/ui.py
    readme,      \* the README file: [kind: "missing" | "unreadable" | "ok", text]
    ppc,         \* position of the lesson pipeline: "start", "parsed", "split", "raised"
    pages,       \* result of parse_readme
    segPage,     \* index of the page handed to _split_page_segments (0: none)
    segments,    \* result of _split_page_segments
    \* ---- learn/ui.py: render_page
    term,        \* the environment variable TERM_PROGRAM ("" when it is not set)
    noticeShown, \* the global _IMAGE_NOTICE_SHOWN
    renders,     \* the render_page calls of the process, in order:
                 \* [current, total, strategy, bar, notice]
    \* ---- learn/ui.py: run_quiz
    questions,   \* the questions: [choices (their number), answer (an index from 0)]
    qpc,         \* position of run_quiz: "Idle", "ask", "select", "menu", "return", "done"
    qno,         \* the question on the screen (0: none)
    shuffled,    \* indexed_choices after random.shuffle: the original indices
                 \* in the order displayed
    picks,       \* the choices the user selected, by original index, in order
    qscore,      \* the local score
    incorrect,   \* the local incorrect: [q, answer]
    offered,     \* the menu with "Review Incorrect Answers" was shown
    reviewed,    \* number of answers shown in the review
    qret,        \* the value returned: <<>> or [score, total]
    \* ---- learn/ui.py: _validate_challenge
    challenge,   \* the challenge file: [kind: "missing" | "ok", code]
    behaviour,   \* what running the file does: [hangs, returncode, stdout, stderr]
    vpc,         \* the step _validate_challenge takes next
    steps,       \* the steps it has taken, in order
    child,       \* the subprocess: "none", "running", "exited", "killed"
    spawned,     \* number of subprocesses started by the call
    proc,        \* the CompletedProcess of subprocess.run
    result,      \* the validation result shown: [kind, count, text]
    reports,     \* number of result panels and error messages printed
    returned,    \* the value returned: "none", "True", "False"
    \* ---- learn/progress.py and the start of main in learn/app.py
    clock,       \* the day the system clock shows, counted from Epoch
    file,        \* the progress file: [kind, data]; kind is "absent", "unreadable",
                 \* "binary" (not UTF-8), "corrupt" (not JSON), "array" (JSON, but
                 \* not an object) or "ok" (a JSON object, in data)
    progress,    \* the progress document in memory, a dict
    spc,         \* position of main: "load", "today", "yesterday", "apply",
                 \* "save", "picker"; "crashed" after an uncaught exception
    today,       \* update_streak: the local today
    yesterday,   \* update_streak: the local yesterday
    streak,      \* main: the value update_streak returned
    processes,   \* number of times the program has been started
    calls,       \* the calls of update_streak so far: [day, before, after, returned]
    \* ---- learn/app.py: the session loop of main
    session,     \* the counters of the summary: [lessons, quizzes, challenges]
    course,      \* the course picked, or "None"
    module,      \* the module picked, or "None"
    action,      \* the action picked in the module menu, or "none"
    pageNo,      \* run_lesson: the page on the screen (0: none)
    quiz,        \* what run_quiz returned: [score, total]
    passed,      \* show_challenge: the local passed
    summaries,   \* number of session summaries shown
    op,          \* the operation in progress since the last menu:
                 \* [name, aborted, marked, spawned, passes, after]: passes
                 \* counts the validations of a challenge visit that
                 \* passed, after tells that one that did not pass, or a
                 \* reset, followed a pass
    echild,      \* the subprocess of run_examples and run_setup:
                 \* "none", "running", "exited", "killed"
    \* ---- learn/ui.py: _reset_challenge
    rpc,         \* the step _reset_challenge takes next
    git,         \* what running git does: [found, returncode, stderr]
    checkouts,   \* number of times the call has run git checkout
    rmsgs        \* the messages the call has printed, in order

qvars == <<questions, qpc, qno, shuffled, picks, qscore, incorrect, offered, reviewed, qret>>
pvars == <<readme, ppc, pages, segPage, segments, term, noticeShown, renders, qvars>>
vvars == <<challenge, behaviour, vpc, steps, child, spawned, proc, result, reports, returned>>
svars == <<clock, file, progress, spc, today, yesterday, streak, processes, calls>>
mvars == <<session, course, module, action, pageNo, quiz, passed, summaries, op, echild>>
rvars == <<rpc, git, checkouts, rmsgs>>

(***************************************************************************)
(* Bounds of the model.                                                    *)
(***************************************************************************)
\* Longest README, counted in pieces (a piece is a marker, an image
\* reference, a character, ...).
MaxPieces == 5
\* Longest body of a page, counted in pieces.
MaxBody == 4
\* Longest challenge file, counted in pieces (a quote, a triple quote, "#",
\* a newline, the placeholder, other code).
MaxCode == 4
\* Longest text the editor saves, counted in pieces.
MaxSaved == 2
\* Longest output of the subprocess, counted in runs of one character.
MaxRuns == 2
\* Last day the clock reaches, counted from Epoch.
MaxDay == 3
\* Largest streak in a progress file the program starts with.
MaxStreak == 2
\* Number of times the program is started.
MaxProcesses == 2
\* Number of calls of update_streak, all processes together.
MaxCalls == 3
\* Number of lessons, quizzes and challenge visits of one session.
MaxItems == 2
\* Number of questions of a quiz.
MaxQuestions == 1
\* Number of subprocesses one challenge visit may start.
MaxTries == 2
\* Pages of a lesson whose pages differ in what they hold.
MaxLessonPages == 2
\* Longest quiz whose questions are asked one by one.
MaxAsked == 2
\* Most choices of a question.
MaxChoices == 3
\* Pages of the longest lesson.
MaxTotal == 6
\* render_page calls of a process.
MaxRenders == 8

(***************************************************************************)
(* Generic sequence helpers.                                               *)
(***************************************************************************)
RECURSIVE Flatten(_)
Flatten(ss) == IF ss = <<>> THEN <<>> ELSE Head(ss) \o Flatten(Tail(ss))

SeqsUpTo(S, n) == UNION {[1..k -> S] : k \in 0..n}

\* text[a:b) in 1-based positions: the tokens a .. b-1.
Slice(t, a, b) == SubSeq(t, a, b - 1)

Tag(doc) == [i \in 1..Len(doc) |-> [c |-> doc[i], p |-> i]]
Untag(t) == [i \in 1..Len(t) |-> t[i].c]
Retag(cs, pos) == [i \in 1..Len(cs) |-> [c |-> cs[i], p |-> pos]]

(***************************************************************************)
(* learn/parser.py                                                         *)
(***************************************************************************)
IMG_DELIM == "NUL"

\* \s of the regular expressions, and what str.strip() removes.
IsSpace(c) == c \in {" ", "\n"}

\* The position after the longest run of \s starting at i.
RECURSIVE SkipSpace(_, _)
SkipSpace(t, i) ==
    IF i <= Len(t) /\ IsSpace(t[i].c) THEN SkipSpace(t, i + 1) ELSE i

TokAt(t, i) == IF i >= 1 /\ i <= Len(t) THEN t[i].c ELSE "EOF"

NoMatch == [end |-> 0]

\* END_MARKER = <!--\s*lesson:end\s*--> tried at position i.
END_MARKER(t, i) ==
    LET j == SkipSpace(t, i + 1)
        k == SkipSpace(t, j + 1)
    IN  IF TokAt(t, i) = "<!--" /\ TokAt(t, j) = "lesson:end" /\ TokAt(t, k) = "-->"
        THEN [end |-> k + 1]
        ELSE NoMatch

\* (.*?)\s*--> from position g: the lazy group grows one token at a time,
\* never over a newline, until \s*--> matches behind it.
RECURSIVE LazyTitle(_, _, _)
LazyTitle(t, from, g) ==
    LET k == SkipSpace(t, g)
    IN  IF TokAt(t, k) = "-->" THEN [end |-> k + 1, gs |-> from, ge |-> g]
        ELSE IF g > Len(t) \/ t[g].c = "\n" THEN NoMatch
        ELSE LazyTitle(t, from, g + 1)

\* PAGE_MARKER = <!--\s*lesson:page\s+(.*?)\s*--> tried at position i.
\* \s+ is greedy and a shorter run never matches where the longest does
\* not, so the group starts after the whole run.
PAGE_MARKER(t, i) ==
    LET j == SkipSpace(t, i + 1)
        g == SkipSpace(t, j + 1)
    IN  IF TokAt(t, i) = "<!--" /\ TokAt(t, j) = "lesson:page" /\ g > j + 1
        THEN LazyTitle(t, g, g)
        ELSE NoMatch

\* The first position >= i at which a token c stands before any newline
\* (0: none): how far a lazy .*? must grow to reach c.
RECURSIVE FindOnLine(_, _, _)
FindOnLine(t, i, c) ==
    IF i > Len(t) \/ t[i].c = "\n" THEN 0
    ELSE IF t[i].c = c THEN i
    ELSE FindOnLine(t, i + 1, c)

\* IMAGE_LINE = !\[(.*?)\]\((.*?)\) tried at position i.
IMAGE_LINE(t, i) ==
    IF TokAt(t, i) # "![" THEN NoMatch
    ELSE LET m == FindOnLine(t, i + 1, "](")
             e == IF m = 0 THEN 0 ELSE FindOnLine(t, m + 1, ")")
         IN  IF e = 0 THEN NoMatch
             ELSE [end |-> e + 1, alt |-> Slice(t, i + 1, m), path |-> Slice(t, m + 1, e)]

\* END_MARKER.search(text): the start of the leftmost match (0: none).
EndSearch(t) ==
    LET starts == {i \in 1..Len(t) : END_MARKER(t, i).end # 0}
    IN  IF starts = {} THEN 0 ELSE CHOOSE i \in starts : \A j \in starts : i <= j

\* Mutant of Truncate: the end marker is not honoured.
TruncateNothing(t) == t

\* text[: end_match.start()] if the end marker is present.
Truncate(t) ==
    LET s == EndSearch(t) IN IF s = 0 THEN t ELSE Slice(t, 1, s)

\* PAGE_MARKER.split(text): the text before the first match, then for each
\* match its group and the text up to the next match.
RECURSIVE PageSplit(_, _, _)
PageSplit(t, from, i) ==
    IF i > Len(t) THEN <<Slice(t, from, Len(t) + 1)>>
    ELSE LET m == PAGE_MARKER(t, i)
         IN  IF m.end = 0 THEN PageSplit(t, from, i + 1)
             ELSE <<Slice(t, from, i), Slice(t, m.gs, m.ge)>> \o PageSplit(t, m.end, m.end)

\* str.strip()
RECURSIVE StripLeft(_)
StripLeft(t) == IF t # <<>> /\ IsSpace(Head(t).c) THEN StripLeft(Tail(t)) ELSE t
RECURSIVE StripRight(_)
StripRight(t) ==
    IF t # <<>> /\ IsSpace(t[Len(t)].c) THEN StripRight(SubSeq(t, 1, Len(t) - 1)) ELSE t
Strip(t) == StripRight(StripLeft(t))

\* re.sub(r"\n{3,}", "\n\n", content): a token is dropped when it is a
\* newline that follows two newlines.
RECURSIVE CollapseBlankLines(_, _)
CollapseBlankLines(t, run) ==
    IF t = <<>> THEN <<>>
    ELSE IF Head(t).c = "\n"
         THEN (IF run >= 2 THEN <<>> ELSE <<Head(t)>>) \o CollapseBlankLines(Tail(t), run + 1)
         ELSE <<Head(t)>> \o CollapseBlankLines(Tail(t), 0)

\* os.path.dirname(os.path.abspath(readme_path)): a fixed directory /d.
readme_dir == <<"/", "d">>

\* os.path.join(a, b) for a directory a that does not end in "/".
PathJoin(a, b) == IF b # <<>> /\ b[1] = "/" THEN b ELSE a \o <<"/">> \o b

\* path.split("/")
RECURSIVE PathSplit(_, _)
PathSplit(cs, cur) ==
    IF cs = <<>> THEN <<cur>>
    ELSE IF Head(cs) = "/" THEN <<cur>> \o PathSplit(Tail(cs), <<>>)
    ELSE PathSplit(Tail(cs), Append(cur, Head(cs)))

\* The loop of posixpath.normpath over the components.
RECURSIVE NormComps(_, _, _)
NormComps(comps, new, rooted) ==
    IF comps = <<>> THEN new
    ELSE LET comp == Head(comps)
             rest == Tail(comps)
         IN  IF comp = <<>> \/ comp = <<".">> THEN NormComps(rest, new, rooted)
             ELSE IF comp # <<"..">> \/ (~rooted /\ new = <<>>)
                     \/ (new # <<>> /\ new[Len(new)] = <<"..">>)
                  THEN NormComps(rest, Append(new, comp), rooted)
             ELSE IF new # <<>> THEN NormComps(rest, SubSeq(new, 1, Len(new) - 1), rooted)
             ELSE NormComps(rest, new, rooted)

\* "/".join(comps)
RECURSIVE SlashJoin(_)
SlashJoin(comps) ==
    IF comps = <<>> THEN <<>>
    ELSE IF Len(comps) = 1 THEN comps[1]
    ELSE comps[1] \o <<"/">> \o SlashJoin(Tail(comps))

\* posixpath.normpath
NormPath(cs) ==
    IF cs = <<>> THEN <<".">>
    ELSE LET slashes == IF cs[1] # "/" THEN 0
                        ELSE IF Len(cs) >= 2 /\ cs[2] = "/" /\ ~(Len(cs) >= 3 /\ cs[3] = "/")
                             THEN 2 ELSE 1
             body == SlashJoin(NormComps(PathSplit(cs, <<>>), <<>>, slashes > 0))
             out == [i \in 1..slashes |-> "/"] \o body
         IN  IF out = <<>> THEN <<".">> ELSE out

\* _image_marker(alt, abs_path): NUL IMG[ alt ]( abs_path ) NUL
_image_marker(alt, abs_path) ==
    <<IMG_DELIM, "IMG[">> \o alt \o <<"](">> \o abs_path \o <<")", IMG_DELIM>>

\* _replace_image(match); the marker stands at the offset of the reference.
_replace_image(m, pos) ==
    LET alt == Untag(m.alt)
        abs_path == NormPath(PathJoin(readme_dir, Untag(m.path)))
    IN  Retag(_image_marker(alt, abs_path), pos)

\* IMAGE_LINE.sub(_replace_image, content)
RECURSIVE ImageSub(_, _)
ImageSub(t, i) ==
    IF i > Len(t) THEN <<>>
    ELSE LET m == IMAGE_LINE(t, i)
         IN  IF m.end = 0 THEN <<t[i]>> \o ImageSub(t, i + 1)
             ELSE _replace_image(m, t[i].p) \o ImageSub(t, m.end)

\* Mutant of PageOf: a page is kept although its content is empty.
PageOfKeepsEmpty(title, content) ==
    <<[title |-> Strip(title),
       content |-> Strip(CollapseBlankLines(ImageSub(content, 1), 0))]>>

\* The body of the loop of parse_readme for one (title, content) pair:
\* the page, or nothing when the content is empty after strip().
PageOf(title, content) ==
    LET c == Strip(CollapseBlankLines(ImageSub(content, 1), 0))
    IN  IF c # <<>> THEN <<[title |-> Strip(title), content |-> c]>> ELSE <<>>

\* for i in range(1, len(parts), 2): ... (parts[i] of the code is parts[i + 1]
\* here: sequences start at 1)
RECURSIVE PagesFrom(_, _)
PagesFrom(parts, i) ==
    IF i > Len(parts) THEN <<>>
    ELSE PageOf(parts[i], IF i + 1 <= Len(parts) THEN parts[i + 1] ELSE <<>>)
         \o PagesFrom(parts, i + 2)

\* parse_readme on the text of a file that was read.
ParseText(text) ==
    LET parts == PageSplit(Truncate(text), 1, 1)
    IN  IF Len(parts) < 3 THEN <<>> ELSE PagesFrom(parts, 2)

\* Mutant of IsFile: the existence check is skipped.
IsFileUnchecked(f) == TRUE

\* os.path.isfile(readme_path)
IsFile(f) == f.kind # "missing"

(***************************************************************************)
(* learn/ui.py: page segmentation                                          *)
(***************************************************************************)
\* (.*?)\)\x00 from position i: the first ")" that stands before the
\* delimiter, with no newline on the way (0: none).
RECURSIVE FindClose(_, _)
FindClose(t, i) ==
    IF i > Len(t) \/ t[i].c = "\n" THEN 0
    ELSE IF t[i].c = ")" /\ TokAt(t, i + 1) = IMG_DELIM THEN i
    ELSE FindClose(t, i + 1)

\* _IMG_MARKER = \x00IMG\[(.*?)\]\((.*?)\)\x00 tried at position i.
_IMG_MARKER(t, i) ==
    IF TokAt(t, i) # IMG_DELIM \/ TokAt(t, i + 1) # "IMG[" THEN NoMatch
    ELSE LET m == FindOnLine(t, i + 2, "](")
             e == IF m = 0 THEN 0 ELSE FindClose(t, m + 1)
         IN  IF e = 0 THEN NoMatch
             ELSE [end |-> e + 2, alt |-> Slice(t, i + 2, m), path |-> Slice(t, m + 1, e)]

\* _IMG_MARKER.split(raw_content): text, alt, path, text, alt, path, ..., text
RECURSIVE MarkerSplit(_, _, _)
MarkerSplit(t, from, i) ==
    IF i > Len(t) THEN <<Slice(t, from, Len(t) + 1)>>
    ELSE LET m == _IMG_MARKER(t, i)
         IN  IF m.end = 0 THEN MarkerSplit(t, from, i + 1)
             ELSE <<Slice(t, from, i), m.alt, m.path>> \o MarkerSplit(t, m.end, m.end)

\* Mutant of SegmentLoop: the path is read from the alt's slot.
RECURSIVE SegmentLoopAltAsPath(_, _)
SegmentLoopAltAsPath(parts, i) ==
    IF ~(i < Len(parts)) THEN <<>>
    ELSE IF i % 3 = 0
         THEN LET text == Strip(parts[i + 1])
              IN  (IF text # <<>> THEN <<[type |-> "text", value |-> text]>> ELSE <<>>)
                  \o SegmentLoopAltAsPath(parts, i + 1)
    ELSE IF i % 3 = 1
         THEN <<[type |-> "image", value |-> <<parts[i + 1], parts[i + 1]>>]>>
              \o SegmentLoopAltAsPath(parts, i + 2)
    ELSE SegmentLoopAltAsPath(parts, i + 1)

\* The while loop of _split_page_segments; i is the index of the code
\* (from 0), parts[i + 1] the element it names.
RECURSIVE SegmentLoop(_, _)
SegmentLoop(parts, i) ==
    IF ~(i < Len(parts)) THEN <<>>
    ELSE IF i % 3 = 0
         THEN LET text == Strip(parts[i + 1])
              IN  (IF text # <<>> THEN <<[type |-> "text", value |-> text]>> ELSE <<>>)
                  \o SegmentLoop(parts, i + 1)
    ELSE IF i % 3 = 1
         THEN LET alt == parts[i + 1]
                  path == IF i + 1 < Len(parts) THEN parts[i + 2] ELSE <<>>
              IN  <<[type |-> "image", value |-> <<alt, path>>]>>
                  \o SegmentLoop(parts, i + 2)
    ELSE SegmentLoop(parts, i + 1)

_split_page_segments(raw_content) ==
    SegmentLoop(MarkerSplit(raw_content, 1, 1), 0)

(***************************************************************************)
(* The lesson pipeline: parse a README, then segment one of its pages.     *)
(***************************************************************************)
\* The pieces READMEs are made of.
PageMarker == <<"<!--", " ", "lesson:page", " ", "T", " ", "-->">>
BareMarker == <<"<!--", "lesson:page", " ", "-->">>
EndMarker == <<"<!--", " ", "lesson:end", " ", "-->">>
ImageRef == <<"![", "a", "](", "p", ")">>
ImageUp == <<"![", "b", "](", "..", "/", "q", ")">>
FakeOpen == <<IMG_DELIM, "IMG[">>
Pieces == {PageMarker, BareMarker, EndMarker, ImageRef, <<"x">>, <<"\n">>}
BodyPieces == {PageMarker, ImageRef, ImageUp, FakeOpen, <<IMG_DELIM>>, <<"x">>, <<"\n">>}

File(text) == [kind |-> "ok", text |-> text]
NoFiles == {[kind |-> "missing", text |-> <<>>], [kind |-> "unreadable", text |-> <<>>]}

\* Any README of at most MaxPieces pieces, or none.
Readmes == NoFiles \cup {File(Flatten(ps)) : ps \in SeqsUpTo(Pieces, MaxPieces)}

\* A README of one page marker and a body of at most MaxBody pieces, which
\* may hold the delimiter character itself.
BodyReadmes == {File(PageMarker \o Flatten(ps)) : ps \in SeqsUpTo(BodyPieces, MaxBody)}

\* No quiz is running.
IdleQuiz ==
    /\ questions = <<>>
    /\ qpc = "Idle"
    /\ qno = 0
    /\ shuffled = <<>>
    /\ picks = <<>>
    /\ qscore = 0
    /\ incorrect = <<>>
    /\ offered = FALSE
    /\ reviewed = 0
    /\ qret = <<>>

InitPipeline ==
    /\ ppc = "start"
    /\ pages = <<>>
    /\ segPage = 0
    /\ segments = <<>>
    /\ noticeShown = FALSE
    /\ renders = <<>>
    /\ IdleQuiz

\* The validator at rest: the part of the state the lesson pipeline leaves alone.
IdleValidate ==
    /\ challenge = [kind |-> "missing", code |-> <<>>]
    /\ behaviour = [hangs |-> TRUE, returncode |-> 0, stdout |-> <<>>, stderr |-> <<>>]
    /\ vpc = "Idle"
    /\ steps = <<>>
    /\ child = "none"
    /\ spawned = 0
    /\ proc = [returncode |-> 0, stdout |-> <<>>, stderr |-> <<>>]
    /\ result = [kind |-> "None", count |-> 0, text |-> <<>>]
    /\ reports = 0
    /\ returned = "none"

\* _reset_challenge is not running.
IdleReset ==
    /\ rpc = "Idle"
    /\ git = [found |-> FALSE, returncode |-> 0, stderr |-> <<>>]
    /\ checkouts = 0
    /\ rmsgs = <<>>

\* The program before main has started: no progress file, nothing loaded.
IdleProgress ==
    /\ clock = 0
    /\ file = [kind |-> "absent", data |-> <<>>]
    /\ progress = <<>>
    /\ spc = "load"
    /\ today = ""
    /\ yesterday = ""
    /\ streak = 0
    /\ processes = 1
    /\ calls = <<>>

NoOp == [name |-> "none", aborted |-> FALSE, marked |-> 0, spawned |-> 0,
         passes |-> 0, after |-> FALSE]

\* The session before main has reached its loop.
IdleSession ==
    /\ session = [lessons |-> 0, quizzes |-> 0, challenges |-> 0]
    /\ course = "None"
    /\ module = "None"
    /\ action = "none"
    /\ pageNo = 0
    /\ quiz = [score |-> 0, total |-> 0]
    /\ passed = FALSE
    /\ summaries = 0
    /\ op = NoOp
    /\ echild = "none"

InitParse ==
    readme \in Readmes /\ term = "" /\ InitPipeline /\ IdleValidate /\ IdleProgress /\ IdleSession
    /\ IdleReset

InitSegments ==
    readme \in BodyReadmes /\ term = "" /\ InitPipeline /\ IdleValidate /\ IdleProgress /\ IdleSession
    /\ IdleReset

\* parse_readme(readme_path)
parse_readme ==
    /\ ppc = "start"
    /\ IF ~IsFile(readme)
       THEN /\ pages' = <<>>
            /\ ppc' = "parsed"
       ELSE IF readme.kind # "ok"
            THEN /\ pages' = pages     \* open() or read() raises
                 /\ ppc' = "raised"
            ELSE /\ pages' = ParseText(Tag(readme.text))
                 /\ ppc' = "parsed"
    /\ UNCHANGED <<readme, segPage, segments, term, noticeShown, renders, qvars>>
    /\ UNCHANGED <<vvars, svars, mvars, rvars>>

\* _split_page_segments(page["content"]) for one of the pages
SplitPage ==
    /\ ppc = "parsed"
    /\ \E k \in 1..Len(pages) :
          /\ segPage' = k
          /\ segments' = _split_page_segments(pages[k].content)
    /\ ppc' = "split"
    /\ UNCHANGED <<readme, pages, term, noticeShown, renders, qvars>>
    /\ UNCHANGED <<vvars, svars, mvars, rvars>>

NextParse == parse_readme \/ SplitPage

(***************************************************************************)
(* learn/ui.py: render_page, called by run_lesson for each page            *)
(***************************************************************************)
_NATIVE_IMAGE_TERMINALS == {"iTerm.app", "iTerm2", "WezTerm"}
_terminal_supports_native_images == term \in _NATIVE_IMAGE_TERMINALS

\* The cells of the bar.
BAR_WIDTH == 20

\* Mutant of _build_progress_bar: the filled cells are rounded up.
_build_progress_bar_ceil(current, total) ==
    LET filled == (BAR_WIDTH * current + total - 1) \div total
    IN  [filled |-> filled, empty |-> BAR_WIDTH - filled,
         label |-> ToString(current) \o "/" \o ToString(total)]

\* _build_progress_bar(current, total): filled full cells, empty light
\* cells, and the label. int() of the quotient of two positive integers is
\* its floor.
_build_progress_bar(current, total) ==
    LET filled == (BAR_WIDTH * current) \div total
    IN  [filled |-> filled, empty |-> BAR_WIDTH - filled,
         label |-> ToString(current) \o "/" \o ToString(total)]

\* has_images = IMG_DELIM in raw
has_images(raw) == \E i \in 1..Len(raw) : raw[i].c = IMG_DELIM

\* Mutant of Branch: every page goes to the single panel.
BranchPanelOnly(raw) == "panel"

\* The branch render_page takes: the single panel, the segments streamed
\* with native images, or the fallback panel.
Branch(raw) ==
    IF ~has_images(raw) THEN "panel"
    ELSE IF _terminal_supports_native_images THEN "native"
    ELSE "fallback"

\* Mutant of _show_image_notice: the flag is not looked at.
_show_image_notice_always == ~_terminal_supports_native_images

\* _show_image_notice() prints the notice: not when the flag is set, and
\* only on a terminal without native images.
_show_image_notice == ~noticeShown /\ ~_terminal_supports_native_images

\* run_lesson(pages, ...) is called.
LessonStart ==
    /\ ppc = "parsed"
    /\ ppc' = "lesson"
    /\ pageNo' = 0
    /\ UNCHANGED <<readme, pages, segPage, segments, term, noticeShown, renders, qvars>>
    /\ UNCHANGED <<vvars, svars, rvars>>
    /\ UNCHANGED <<session, course, module, action, quiz, passed, summaries, op, echild>>

\* run_lesson: the next page of the loop is rendered: render_page(page,
\* i + 1, len(pages)), and the user confirms.
render_page ==
    /\ ppc = "lesson"
    /\ pageNo < Len(pages)
    /\ Len(renders) < MaxRenders
    /\ pageNo' = pageNo + 1
    /\ LET raw == pages[pageNo'].content
           branch == Branch(raw)
           notice == branch = "fallback" /\ _show_image_notice
       IN  /\ renders' = Append(renders,
                    [current |-> pageNo', total |-> Len(pages),
                     strategy |-> branch,
                     bar |-> IF branch = "native" THEN <<>>
                             ELSE <<_build_progress_bar(pageNo', Len(pages))>>,
                     notice |-> notice])
           /\ noticeShown' = (noticeShown \/ branch = "fallback")
    /\ UNCHANGED <<readme, ppc, pages, segPage, segments, term, qvars>>
    /\ UNCHANGED <<vvars, svars, rvars>>
    /\ UNCHANGED <<session, course, module, action, quiz, passed, summaries, op, echild>>

\* run_lesson returns after the last page.
LessonEnd ==
    /\ ppc = "lesson"
    /\ pageNo = Len(pages)
    /\ ppc' = "parsed"
    /\ UNCHANGED <<readme, pages, segPage, segments, term, noticeShown, renders, qvars>>
    /\ UNCHANGED <<vvars, svars, mvars, rvars>>

NextRender == parse_readme \/ LessonStart \/ render_page \/ LessonEnd

\* What a page holds: text, an image, both, or the delimiter character
\* outside any image reference.
PageBodies == {<<"x">>, ImageRef, <<"x", "\n">> \o ImageRef \o <<"\n", "x">>, <<"x", IMG_DELIM>>}

Lesson(bodies) == File(Flatten([i \in 1..Len(bodies) |-> PageMarker \o bodies[i]]))

\* Lessons of up to MaxLessonPages pages of these kinds, and lessons of up
\* to MaxTotal pages of text.
LessonFiles ==
    {Lesson(bs) : bs \in SeqsUpTo(PageBodies, MaxLessonPages)}
    \cup {Lesson([i \in 1..n |-> <<"x">>]) : n \in 1..MaxTotal}

Terminals == {"iTerm.app", "WezTerm", "Apple_Terminal", ""}

InitRender ==
    /\ readme \in LessonFiles
    /\ term \in Terminals
    /\ InitPipeline /\ IdleValidate /\ IdleProgress /\ IdleSession /\ IdleReset

(***************************************************************************)
(* learn/ui.py: run_quiz                                                   *)
(*                                                                         *)
(* A question is its number of choices and the index of the right one; the *)
(* choices themselves are named by their original indices 0, 1, ...        *)
(***************************************************************************)
\* The orders random.shuffle can leave n choices in.
Shuffles(n) ==
    {p \in [1..n -> 0..(n - 1)] : \A i, j \in 1..n : p[i] = p[j] => i = j}

\* Mutant of Selected: the value of a choice is its position on the screen.
SelectedPosition(order, pos) == pos - 1

\* Choice(value=orig_idx, name=text): what inquirer.select returns for the
\* choice displayed at position pos.
Selected(order, pos) == order[pos]

\* for i, q in enumerate(questions): the question is shown and its choices
\* are shuffled.
QuizShuffle ==
    /\ qpc = "ask"
    /\ qno < Len(questions)
    /\ qno' = qno + 1
    /\ shuffled' \in Shuffles(questions[qno'].choices)
    /\ qpc' = "select"
    /\ UNCHANGED <<questions, picks, qscore, incorrect, offered, reviewed, qret>>
    /\ UNCHANGED <<readme, ppc, pages, segPage, segments, term, noticeShown, renders>>
    /\ UNCHANGED <<vvars, svars, mvars, rvars>>

\* answer = inquirer.select(...).execute(); if answer == q["answer"]:
\* score += 1, else incorrect.append((q, answer)); wait_for_enter().
QuizSelect ==
    /\ qpc = "select"
    /\ \E pos \in 1..Len(shuffled) :
          LET answer == Selected(shuffled, pos)
          IN  /\ picks' = Append(picks, shuffled[pos])
              /\ IF answer = questions[qno].answer
                 THEN qscore' = qscore + 1 /\ UNCHANGED incorrect
                 ELSE /\ incorrect' = Append(incorrect, [q |-> qno, answer |-> answer])
                      /\ UNCHANGED qscore
    /\ qpc' = "ask"
    /\ UNCHANGED <<questions, qno, shuffled, offered, reviewed, qret>>
    /\ UNCHANGED <<readme, ppc, pages, segPage, segments, term, noticeShown, renders>>
    /\ UNCHANGED <<vvars, svars, mvars, rvars>>

\* The results panel; if incorrect: the menu with the review, else
\* wait_for_enter.
QuizResults ==
    /\ qpc = "ask"
    /\ qno = Len(questions)
    /\ offered' = (incorrect # <<>>)
    /\ qpc' = IF incorrect # <<>> THEN "menu" ELSE "return"
    /\ UNCHANGED <<questions, qno, shuffled, picks, qscore, incorrect, reviewed, qret>>
    /\ UNCHANGED <<readme, ppc, pages, segPage, segments, term, noticeShown, renders>>
    /\ UNCHANGED <<vvars, svars, mvars, rvars>>

\* review = inquirer.select(...): the incorrect answers are shown one by
\* one, or the user goes back.
QuizReview ==
    /\ qpc = "menu"
    /\ \E review \in {"review", "back"} :
          reviewed' = IF review = "review" THEN Len(incorrect) ELSE 0
    /\ qpc' = "return"
    /\ UNCHANGED <<questions, qno, shuffled, picks, qscore, incorrect, offered, qret>>
    /\ UNCHANGED <<readme, ppc, pages, segPage, segments, term, noticeShown, renders>>
    /\ UNCHANGED <<vvars, svars, mvars, rvars>>

\* return score, total
QuizReturn ==
    /\ qpc = "return"
    /\ qret' = [score |-> qscore, total |-> Len(questions)]
    /\ qpc' = "done"
    /\ UNCHANGED <<questions, qno, shuffled, picks, qscore, incorrect, offered, reviewed>>
    /\ UNCHANGED <<readme, ppc, pages, segPage, segments, term, noticeShown, renders>>
    /\ UNCHANGED <<vvars, svars, mvars, rvars>>

NextQuiz == QuizShuffle \/ QuizSelect \/ QuizResults \/ QuizReview \/ QuizReturn

\* The questions of a module: two or more choices, one of them right.
Questions ==
    UNION {{[choices |-> n, answer |-> a] : a \in 0..(n - 1)} : n \in 2..MaxChoices}

\* run_quiz(questions, ...) is called: score = 0, total = len(questions),
\* incorrect = [].
InitQuiz ==
    /\ questions \in SeqsUpTo(Questions, MaxAsked)
    /\ qpc = "ask"
    /\ qno = 0
    /\ shuffled = <<>>
    /\ picks = <<>>
    /\ qscore = 0
    /\ incorrect = <<>>
    /\ offered = FALSE
    /\ reviewed = 0
    /\ qret = <<>>
    /\ readme = [kind |-> "missing", text |-> <<>>]
    /\ term = ""
    /\ ppc = "start"
    /\ pages = <<>>
    /\ segPage = 0
    /\ segments = <<>>
    /\ noticeShown = FALSE
    /\ renders = <<>>
    /\ IdleValidate /\ IdleProgress /\ IdleSession /\ IdleReset

(***************************************************************************)
(* learn/ui.py: the challenge validator                                    *)
(*                                                                         *)
(* The code of a challenge file is a sequence of characters: the quotes    *)
(* "\"" and "'", "#", "\n", "c" (any other character) and "X", which       *)
(* stands for one occurrence of the placeholder XXXX___.                   *)
(***************************************************************************)
PLACEHOLDER == "X"

\* Whether the three characters from position i are all q.
TripleAt(t, i, q) ==
    i + 2 <= Len(t) /\ t[i] = q /\ t[i + 1] = q /\ t[i + 2] = q

\* The start of the first triple q at or after position i (0: none).
RECURSIVE FindTriple(_, _, _)
FindTriple(t, i, q) ==
    IF i + 2 > Len(t) THEN 0
    ELSE IF TripleAt(t, i, q) THEN i
    ELSE FindTriple(t, i + 1, q)

\* re.sub(qqq + ".*?" + qqq, "", code, flags=re.DOTALL) from position i:
\* a triple quote that has a later triple quote is removed with all up to
\* and including the nearest one.
RECURSIVE StripTriple(_, _, _)
StripTriple(t, i, q) ==
    IF i > Len(t) THEN <<>>
    ELSE LET close == IF TripleAt(t, i, q) THEN FindTriple(t, i + 3, q) ELSE 0
         IN  IF close # 0 THEN StripTriple(t, close + 3, q)
             ELSE <<t[i]>> \o StripTriple(t, i + 1, q)

\* re.sub(r"#.*", "", code): from a "#" to the end of its line.
RECURSIVE StripHash(_, _)
StripHash(t, inComment) ==
    IF t = <<>> THEN <<>>
    ELSE IF Head(t) = "\n" THEN <<"\n">> \o StripHash(Tail(t), FALSE)
    ELSE IF inComment \/ Head(t) = "#" THEN StripHash(Tail(t), TRUE)
    ELSE <<Head(t)>> \o StripHash(Tail(t), FALSE)

_strip_comments(code) ==
    StripHash(StripTriple(StripTriple(code, 1, "\""), 1, "'"), FALSE)

\* code.count("XXXX___")
RECURSIVE Count(_)
Count(t) ==
    IF t = <<>> THEN 0
    ELSE (IF Head(t) = PLACEHOLDER THEN 1 ELSE 0) + Count(Tail(t))

\* Mutant of _check_placeholders: the scan never finds a placeholder.
_check_placeholders_blind(code) == FALSE

\* _check_placeholders on the code read from the file:
\* "XXXX___" in _strip_comments(code)
_check_placeholders(code) ==
    \E i \in 1..Len(_strip_comments(code)) : _strip_comments(code)[i] = PLACEHOLDER

(***************************************************************************)
(* Output of the subprocess. A text is a sequence of runs [c, n]: the      *)
(* character c repeated n >= 1 times.                                      *)
(***************************************************************************)
MAX_ERROR == 800

IsSpaceRun(r) == r.c \in {" ", "\n"}

RECURSIVE TextLen(_)
TextLen(t) == IF t = <<>> THEN 0 ELSE Head(t).n + TextLen(Tail(t))

\* str.strip() of a text
RECURSIVE StripTextLeft(_)
StripTextLeft(t) ==
    IF t # <<>> /\ IsSpaceRun(Head(t)) THEN StripTextLeft(Tail(t)) ELSE t
RECURSIVE StripTextRight(_)
StripTextRight(t) ==
    IF t # <<>> /\ IsSpaceRun(t[Len(t)])
    THEN StripTextRight(SubSeq(t, 1, Len(t) - 1)) ELSE t
StripText(t) == StripTextRight(StripTextLeft(t))

\* text[:k]
RECURSIVE Take(_, _)
Take(t, k) ==
    IF t = <<>> \/ k <= 0 THEN <<>>
    ELSE IF Head(t).n <= k THEN <<Head(t)>> \o Take(Tail(t), k - Head(t).n)
    ELSE <<[c |-> Head(t).c, n |-> k]>>

\* "\n..."
TruncationMark == <<[c |-> "\n", n |-> 1], [c |-> ".", n |-> 3]>>

\* Mutant of ErrorText: stdout is preferred to stderr.
ErrorTextStdoutFirst(p) ==
    LET error == IF StripText(p.stdout) # <<>> THEN StripText(p.stdout)
                 ELSE StripText(p.stderr)
    IN  IF TextLen(error) > MAX_ERROR THEN Take(error, MAX_ERROR) \o TruncationMark
        ELSE error

\* error = result.stderr.strip() or result.stdout.strip(), cut when long
ErrorText(p) ==
    LET error == IF StripText(p.stderr) # <<>> THEN StripText(p.stderr)
                 ELSE StripText(p.stdout)
    IN  IF TextLen(error) > MAX_ERROR THEN Take(error, MAX_ERROR) \o TruncationMark
        ELSE error

NoResult == [kind |-> "None", count |-> 0, text |-> <<>>]
NoProc == [returncode |-> 0, stdout |-> <<>>, stderr |-> <<>>]

\* Mutant of ChildAfterTimeout: the timed-out child is left running.
ChildLeftRunning == "running"

\* subprocess.run kills the child and waits for it before it raises
\* TimeoutExpired.
ChildAfterTimeout == "killed"

InitCall ==
    /\ vpc = "CheckExists"
    /\ steps = <<>>
    /\ child = "none"
    /\ spawned = 0
    /\ proc = NoProc
    /\ result = NoResult
    /\ reports = 0
    /\ returned = "none"

\* Mutant of CheckExists: a missing challenge file is not noticed.
CheckExistsBlind ==
    /\ vpc = "CheckExists"
    /\ steps' = Append(steps, "CheckExists")
    /\ vpc' = "CheckPlaceholders"
    /\ UNCHANGED <<result, reports, returned>>
    /\ UNCHANGED <<challenge, behaviour, child, spawned, proc>>
    /\ UNCHANGED <<pvars, svars, mvars, rvars>>

\* if not os.path.isfile(challenge_path): report, return False
CheckExists ==
    /\ vpc = "CheckExists"
    /\ steps' = Append(steps, "CheckExists")
    /\ IF challenge.kind = "missing"
       THEN /\ result' = [NoResult EXCEPT !.kind = "NotFound"]
            /\ reports' = reports + 1
            /\ returned' = "False"
            /\ vpc' = "Done"
       ELSE /\ vpc' = "CheckPlaceholders"
            /\ UNCHANGED <<result, reports, returned>>
    /\ UNCHANGED <<challenge, behaviour, child, spawned, proc>>
    /\ UNCHANGED <<pvars, svars, mvars, rvars>>

\* if _check_placeholders(challenge_path): the first read of the file,
\* inside _check_placeholders, takes the decision.
CheckPlaceholders ==
    /\ vpc = "CheckPlaceholders"
    /\ steps' = Append(steps, "CheckPlaceholders")
    /\ vpc' = IF _check_placeholders(challenge.code) THEN "CountPlaceholders" ELSE "Execute"
    /\ UNCHANGED <<result, reports, returned>>
    /\ UNCHANGED <<challenge, behaviour, child, spawned, proc>>
    /\ UNCHANGED <<pvars, svars, mvars, rvars>>

\* with open(challenge_path) as f: code = _strip_comments(f.read());
\* count = code.count("XXXX___"): the second read of the file counts, then
\* the INCOMPLETE panel is printed and False returned.
CountPlaceholders ==
    /\ vpc = "CountPlaceholders"
    /\ result' = [NoResult EXCEPT !.kind = "Incomplete",
                                  !.count = Count(_strip_comments(challenge.code))]
    /\ reports' = reports + 1
    /\ returned' = "False"
    /\ vpc' = "Done"
    /\ UNCHANGED <<challenge, behaviour, child, spawned, proc, steps>>
    /\ UNCHANGED <<pvars, svars, mvars, rvars>>

\* subprocess.run([sys.executable, challenge["file"]], ...) starts the child
Execute ==
    /\ vpc = "Execute"
    /\ steps' = Append(steps, "Execute")
    /\ child' = "running"
    /\ spawned' = spawned + 1
    /\ vpc' = "Wait"
    /\ UNCHANGED <<challenge, behaviour, proc, result, reports, returned>>
    /\ UNCHANGED <<pvars, svars, mvars, rvars>>

\* the child ends within the timeout: subprocess.run returns
ChildExits ==
    /\ vpc = "Wait"
    /\ ~behaviour.hangs
    /\ child' = "exited"
    /\ proc' = [returncode |-> behaviour.returncode,
                stdout |-> behaviour.stdout,
                stderr |-> behaviour.stderr]
    /\ vpc' = "Classify"
    /\ UNCHANGED <<challenge, behaviour, steps, spawned, result, reports, returned>>
    /\ UNCHANGED <<pvars, svars, mvars, rvars>>

\* the child is still running after timeout=120: subprocess.run stops it
\* and raises TimeoutExpired; the handler reports TIMEOUT, returns False
TimeoutExpired ==
    /\ vpc = "Wait"
    /\ behaviour.hangs
    /\ child' = ChildAfterTimeout
    /\ result' = [NoResult EXCEPT !.kind = "Timeout"]
    /\ reports' = reports + 1
    /\ returned' = "False"
    /\ vpc' = "Done"
    /\ UNCHANGED <<challenge, behaviour, steps, spawned, proc>>
    /\ UNCHANGED <<pvars, svars, mvars, rvars>>

\* if result.returncode == 0: PASSED, return True; else: FAILED, return False
Classify ==
    /\ vpc = "Classify"
    /\ steps' = Append(steps, "Classify")
    /\ IF proc.returncode = 0
       THEN /\ result' = [NoResult EXCEPT !.kind = "Passed", !.text = StripText(proc.stdout)]
            /\ returned' = "True"
       ELSE /\ result' = [NoResult EXCEPT !.kind = "Failed", !.text = ErrorText(proc)]
            /\ returned' = "False"
    /\ reports' = reports + 1
    /\ vpc' = "Done"
    /\ UNCHANGED <<challenge, behaviour, child, spawned, proc>>
    /\ UNCHANGED <<pvars, svars, mvars, rvars>>

_validate_challenge ==
    \/ CheckExists \/ CheckPlaceholders \/ CountPlaceholders
    \/ Execute \/ ChildExits \/ TimeoutExpired \/ Classify

(***************************************************************************)
(* learn/ui.py: _reset_challenge                                           *)
(***************************************************************************)
\* The challenge file as the repository has it, with its placeholders.
Original == [kind |-> "ok", code |-> <<PLACEHOLDER>>]

Message(kind) == [kind |-> kind, text |-> <<>>]

\* if not os.path.isfile(challenge_path): report, return
ResetCheckExists ==
    /\ rpc = "CheckExists"
    /\ IF challenge.kind = "missing"
       THEN rmsgs' = Append(rmsgs, Message("NotFound")) /\ rpc' = "Done"
       ELSE rmsgs' = rmsgs /\ rpc' = "CheckPlaceholders"
    /\ UNCHANGED <<git, checkouts, vvars, pvars, svars, mvars>>

\* if _check_placeholders(challenge_path): report, return
ResetCheckPlaceholders ==
    /\ rpc = "CheckPlaceholders"
    /\ IF _check_placeholders(challenge.code)
       THEN rmsgs' = Append(rmsgs, Message("NothingToReset")) /\ rpc' = "Done"
       ELSE rmsgs' = rmsgs /\ rpc' = "Checkout"
    /\ UNCHANGED <<git, checkouts, vvars, pvars, svars, mvars>>

\* subprocess.run(["git", "checkout", "--", challenge_rel]) and the report
\* of its outcome.
Checkout ==
    /\ rpc = "Checkout"
    /\ checkouts' = checkouts + 1
    /\ IF ~git.found
       THEN rmsgs' = Append(rmsgs, Message("GitNotFound")) /\ UNCHANGED challenge
       ELSE IF git.returncode = 0
       THEN rmsgs' = Append(rmsgs, Message("Reset")) /\ challenge' = Original
       ELSE /\ rmsgs' = Append(rmsgs, [kind |-> "ResetFailed",
                                        text |-> StripText(git.stderr)])
            /\ UNCHANGED challenge
    /\ rpc' = "Done"
    /\ UNCHANGED <<git, behaviour, vpc, steps, child, spawned, proc, result, reports, returned>>
    /\ UNCHANGED <<pvars, svars, mvars>>

_reset_challenge == ResetCheckExists \/ ResetCheckPlaceholders \/ Checkout

\* What git does: it is not installed, it succeeds, or it fails with a
\* message on stderr.
Gits ==
    {[found |-> FALSE, returncode |-> 0, stderr |-> <<>>]}
    \cup {[found |-> TRUE, returncode |-> rc, stderr |-> err] :
            rc \in {0, 1}, err \in {<<>>, <<[c |-> "e", n |-> 1], [c |-> " ", n |-> 1]>>}}


\* The pieces challenge files are made of.
CodePieces ==
    {<<"\"", "\"", "\"">>, <<"'", "'", "'">>, <<"\"">>, <<"#">>, <<"\n">>,
     <<PLACEHOLDER>>, <<"c">>}

Challenges ==
    {[kind |-> "missing", code |-> <<>>]}
    \cup {[kind |-> "ok", code |-> Flatten(ps)] : ps \in SeqsUpTo(CodePieces, MaxCode)}

\* Outputs: runs of a letter or of a blank, one character or MAX_ERROR long.
Runs(letter) == {[c |-> ch, n |-> k] : ch \in {letter, " "}, k \in {1, MAX_ERROR}}
Texts(letter) == SeqsUpTo(Runs(letter), MaxRuns)

Hang == [hangs |-> TRUE, returncode |-> 0, stdout |-> <<>>, stderr |-> <<>>]
Exit(rc, out, err) == [hangs |-> FALSE, returncode |-> rc, stdout |-> out, stderr |-> err]

\* The lesson pipeline at rest.
IdlePipeline == readme = [kind |-> "missing", text |-> <<>>] /\ term = "" /\ InitPipeline

\* Any challenge file; it succeeds, fails or hangs when run.
InitValidate ==
    /\ challenge \in Challenges
    /\ behaviour \in {Hang, Exit(0, <<>>, <<>>), Exit(1, <<>>, <<>>)}
    /\ InitCall
    /\ IdlePipeline
    /\ IdleProgress
    /\ IdleSession
    /\ IdleReset

\* A complete challenge file, any exit code and output when run; or the
\* challenge as the repository has it.
InitRun ==
    /\ challenge \in {[kind |-> "ok", code |-> <<"c">>], Original}
    /\ behaviour \in {Hang} \cup {Exit(rc, out, err) :
                                    rc \in {0, 1, -9}, out \in Texts("o"), err \in Texts("e")}
    /\ InitCall
    /\ IdlePipeline
    /\ IdleProgress
    /\ IdleSession
    /\ IdleReset

\* The texts the user's editor saves while working on a challenge.
Saves ==
    {[kind |-> "ok", code |-> Flatten(ps)] :
        ps \in SeqsUpTo({<<PLACEHOLDER>>, <<"c">>, <<"#">>}, MaxSaved)}

\* Another process, the user's editor, rewrites the challenge file while
\* the validator works on it.
Editor ==
    /\ vpc \notin {"Idle", "Done"}
    /\ challenge.kind = "ok"
    /\ \E c \in Saves : c # challenge /\ challenge' = c
    /\ UNCHANGED <<behaviour, vpc, steps, child, spawned, proc, result, reports, returned>>
    /\ UNCHANGED <<pvars, svars, mvars, rvars>>

NextEdit == _validate_challenge \/ Editor

\* A challenge file open in the editor; it succeeds, fails or hangs when run.
InitEdit ==
    /\ challenge \in Saves
    /\ behaviour \in {Hang, Exit(0, <<>>, <<>>), Exit(1, <<>>, <<>>)}
    /\ InitCall
    /\ IdlePipeline
    /\ IdleProgress
    /\ IdleSession
    /\ IdleReset

(***************************************************************************)
(* learn/progress.py: the progress document and the daily streak, and the  *)
(* three calls main makes when the program starts.                         *)
(***************************************************************************)
\* Python's None, and null in the JSON file.
None == "None"
null == "null"

\* The day the clock shows at the start of the model.
Epoch == [y |-> 2024, m |-> 2, d |-> 27]

IsLeap(y) == (y % 4 = 0 /\ y % 100 # 0) \/ y % 400 = 0

DaysInMonth(y, m) ==
    IF m = 2 THEN (IF IsLeap(y) THEN 29 ELSE 28)
    ELSE IF m \in {4, 6, 9, 11} THEN 30 ELSE 31

NextDate(dt) ==
    IF dt.d < DaysInMonth(dt.y, dt.m) THEN [dt EXCEPT !.d = @ + 1]
    ELSE IF dt.m < 12 THEN [y |-> dt.y, m |-> dt.m + 1, d |-> 1]
    ELSE [y |-> dt.y + 1, m |-> 1, d |-> 1]

PrevDate(dt) ==
    IF dt.d > 1 THEN [dt EXCEPT !.d = @ - 1]
    ELSE IF dt.m > 1 THEN [y |-> dt.y, m |-> dt.m - 1, d |-> DaysInMonth(dt.y, dt.m - 1)]
    ELSE [y |-> dt.y - 1, m |-> 12, d |-> 31]

\* The calendar date of day n.
RECURSIVE DateOf(_)
DateOf(n) ==
    IF n = 0 THEN Epoch
    ELSE IF n > 0 THEN NextDate(DateOf(n - 1))
    ELSE PrevDate(DateOf(n + 1))

Pad2(n) == IF n < 10 THEN "0" \o ToString(n) ELSE ToString(n)

\* date.isoformat(): "YYYY-MM-DD".
isoformat(n) ==
    LET dt == DateOf(n)
    IN  ToString(dt.y) \o "-" \o Pad2(dt.m) \o "-" \o Pad2(dt.d)

\* dict.get(k, default), d[k] = v and dict.setdefault over all keys of a
\* dict of defaults.
Get(d, k, default) == IF k \in DOMAIN d THEN d[k] ELSE default
Put(d, k, v) == [x \in DOMAIN d \cup {k} |-> IF x = k THEN v ELSE d[x]]
SetDefaults(d, defaults) ==
    [x \in DOMAIN d \cup DOMAIN defaults |-> IF x \in DOMAIN d THEN d[x] ELSE defaults[x]]

\* json.dump and json.load: None is written as null and read back as None;
\* strings, integers and mappings are written and read as they are.
json_dump(d) ==
    [x \in DOMAIN d |-> IF x = "last_active" /\ d[x] = None THEN null ELSE d[x]]
json_load(j) ==
    [x \in DOMAIN j |-> IF x = "last_active" /\ j[x] = null THEN None ELSE j[x]]

default == [courses |-> <<>>, last_active |-> None, streak |-> 0]

\* The exception that leaves load_progress: the decoding error of f.read()
\* and the missing setdefault of a list, a number, a string or null are
\* not among the exceptions it catches.
LoadError(f) ==
    CASE f.kind = "binary" -> "UnicodeDecodeError"
      [] f.kind = "array" -> "AttributeError"
      [] OTHER -> "none"

\* The document load_progress returns, when it returns.
load_progress(f) ==
    IF f.kind # "ok" THEN default
    ELSE SetDefaults(json_load(f.data), default)

\* main: progress = load_progress(); an exception ends the process.
LoadProgress ==
    /\ spc = "load"
    /\ IF LoadError(file) = "none"
       THEN progress' = load_progress(file) /\ spc' = "today"
       ELSE UNCHANGED progress /\ spc' = "crashed"
    /\ UNCHANGED <<clock, file, today, yesterday, streak, processes, calls>>
    /\ UNCHANGED <<pvars, vvars, mvars, rvars>>

\* update_streak: today = date.today().isoformat()
ReadToday ==
    /\ spc = "today"
    /\ today' = isoformat(clock)
    /\ spc' = "yesterday"
    /\ UNCHANGED <<clock, file, progress, yesterday, streak, processes, calls>>
    /\ UNCHANGED <<pvars, vvars, mvars, rvars>>

\* update_streak: yesterday = (date.today() - timedelta(days=1)).isoformat()
ReadYesterday ==
    /\ spc = "yesterday"
    /\ yesterday' = isoformat(clock - 1)
    /\ spc' = "apply"
    /\ UNCHANGED <<clock, file, progress, today, streak, processes, calls>>
    /\ UNCHANGED <<pvars, vvars, mvars, rvars>>

\* Mutant of ApplyStreak: the same-day branch is missing.
ApplyStreakNoSameDay ==
    /\ spc = "apply"
    /\ LET last == Get(progress, "last_active", None)
           counted == IF last \in {today, yesterday}
                      THEN Put(progress, "streak", Get(progress, "streak", 0) + 1)
                      ELSE Put(progress, "streak", 1)
       IN  /\ progress' = Put(counted, "last_active", today)
           /\ streak' = counted["streak"]
           /\ calls' = Append(calls, [day |-> today, before |-> progress,
                                       after |-> progress', returned |-> streak'])
    /\ spc' = "save"
    /\ UNCHANGED <<clock, file, today, yesterday, processes>>
    /\ UNCHANGED <<pvars, vvars, mvars, rvars>>

\* update_streak: the three branches, and the return to main.
ApplyStreak ==
    /\ spc = "apply"
    /\ LET last == Get(progress, "last_active", None)
       IN  IF last = today
           THEN /\ streak' = Get(progress, "streak", 1)
                /\ UNCHANGED progress
           ELSE LET counted == IF last = yesterday
                               THEN Put(progress, "streak", Get(progress, "streak", 0) + 1)
                               ELSE Put(progress, "streak", 1)
                IN  /\ progress' = Put(counted, "last_active", today)
                    /\ streak' = counted["streak"]
    /\ calls' = Append(calls, [day |-> today, before |-> progress,
                                after |-> progress', returned |-> streak'])
    /\ spc' = "save"
    /\ UNCHANGED <<clock, file, today, yesterday, processes>>
    /\ UNCHANGED <<pvars, vvars, mvars, rvars>>

update_streak == ReadToday \/ ReadYesterday \/ ApplyStreak

\* main: save_progress(progress), then the course picker.
save_progress ==
    /\ spc = "save"
    /\ file' = [kind |-> "ok", data |-> json_dump(progress)]
    /\ spc' = "picker"
    /\ UNCHANGED <<clock, progress, today, yesterday, streak, processes, calls>>
    /\ UNCHANGED <<pvars, vvars, mvars, rvars>>

\* The session ends and the program is started again.
main ==
    /\ spc = "picker"
    /\ processes < MaxProcesses
    /\ processes' = processes + 1
    /\ progress' = <<>>
    /\ today' = ""
    /\ yesterday' = ""
    /\ streak' = 0
    /\ spc' = "load"
    /\ UNCHANGED <<clock, file, calls>>
    /\ UNCHANGED <<pvars, vvars, mvars, rvars>>

\* Midnight passes.
Midnight ==
    /\ clock < MaxDay
    /\ clock' = clock + 1
    /\ UNCHANGED <<file, progress, spc, today, yesterday, streak, processes, calls>>
    /\ UNCHANGED <<pvars, vvars, mvars, rvars>>

NextStreak == LoadProgress \/ update_streak \/ save_progress \/ main \/ Midnight

\* A caller calls update_streak once more on the document it holds.
CallAgain ==
    /\ spc = "picker"
    /\ Len(calls) < MaxCalls
    /\ spc' = "today"
    /\ UNCHANGED <<clock, file, progress, today, yesterday, streak, processes, calls>>
    /\ UNCHANGED <<pvars, vvars, mvars, rvars>>

NextCalls == NextStreak \/ CallAgain

\* Values of last_active in a progress file the program starts with: none,
\* one of the last days, or another string.
LastActives == {null, "n/a"} \cup {isoformat(n) : n \in -2..0}

\* Progress files the program starts with: none, one that cannot be read,
\* decoded or parsed, one that holds another JSON value than an object, or
\* a JSON object with some of the three keys.
ProgressFiles ==
    {[kind |-> k, data |-> <<>>] : k \in {"absent", "unreadable", "binary", "corrupt", "array"}}
    \cup {[kind |-> "ok", data |-> [x \in K |-> doc[x]]] :
            K \in SUBSET {"courses", "last_active", "streak"},
            doc \in [courses : {<<>>}, last_active : LastActives, streak : 0..MaxStreak]}

InitStreak ==
    /\ clock = 0
    /\ file \in ProgressFiles
    /\ progress = <<>>
    /\ spc = "load"
    /\ today = ""
    /\ yesterday = ""
    /\ streak = 0
    /\ processes = 1
    /\ calls = <<>>
    /\ IdlePipeline
    /\ IdleValidate
    /\ IdleSession
    /\ IdleReset

(***************************************************************************)
(* learn/progress.py: the marks; learn/app.py: the session loop of main.   *)
(***************************************************************************)
\* Mutant of _ensure_module: the module entry is assigned, not defaulted.
_ensure_module_assigns(d, c, m) ==
    LET cs == d["courses"]
        withCourse == IF c \in DOMAIN cs THEN cs ELSE Put(cs, c, <<>>)
    IN  Put(d, "courses", Put(withCourse, c, Put(withCourse[c], m, <<>>)))

\* _ensure_module(progress, course_id, module_id)
_ensure_module(d, c, m) ==
    LET cs == d["courses"]
        withCourse == IF c \in DOMAIN cs THEN cs ELSE Put(cs, c, <<>>)
        withModule == IF m \in DOMAIN withCourse[c] THEN withCourse[c]
                      ELSE Put(withCourse[c], m, <<>>)
    IN  Put(d, "courses", Put(withCourse, c, withModule))

\* Mutant of SetField: the module entry is replaced by one with the field
\* alone.
SetFieldFresh(d, c, m, k, v) ==
    LET cs == d["courses"]
    IN  Put(d, "courses", Put(cs, c, Put(cs[c], m, Put(<<>>, k, v))))

\* progress["courses"][c][m][k] = v
SetField(d, c, m, k, v) ==
    LET cs == d["courses"]
    IN  Put(d, "courses", Put(cs, c, Put(cs[c], m, Put(cs[c][m], k, v))))

\* f"{score}/{total}"
ScoreText(score, total) == ToString(score) \o "/" \o ToString(total)

mark_lesson(d, c, m) == SetField(_ensure_module(d, c, m), c, m, "lesson", TRUE)

\* Mutant of mark_quiz: a score already stored is kept.
mark_quiz_keeps(d, c, m, score, total) ==
    LET e == _ensure_module(d, c, m)
    IN  IF "quiz_score" \in DOMAIN e["courses"][c][m] THEN e
        ELSE SetField(e, c, m, "quiz_score", ScoreText(score, total))

mark_quiz(d, c, m, score, total) ==
    SetField(_ensure_module(d, c, m), c, m, "quiz_score", ScoreText(score, total))

mark_challenge(d, c, m) == SetField(_ensure_module(d, c, m), c, m, "challenge", TRUE)

\* get_module_progress(progress, c, m)
get_module_progress(d, c, m) ==
    Get(Get(Get(d, "courses", <<>>), c, <<>>), m, <<>>)

\* The catalogue: two courses with modules, one course to come.
Available == {"a", "b"}
ComingSoon == {"soon"}
ModulesOf(c) == IF c = "a" THEN {"m1", "m2"} ELSE {"m1"}
HasChallenge(c, m) == m = "m1"
\* Number of example scripts of a module.
ExamplesOf(c, m) == IF c = "b" THEN 0 ELSE IF m = "m1" THEN 1 ELSE 2
HasSetup(c, m) == c = "a" /\ m = "m1"

\* The README of a module when a lesson is started.
LessonReadmes ==
    {[kind |-> "missing", text |-> <<>>], File(<<"x">>), File(PageMarker \o <<"x">>),
     File(PageMarker \o <<"x">> \o PageMarker \o <<"y">>)}

\* load_pages(module): the pages of the module's README.
load_pages(f) == IF f.kind = "ok" THEN ParseText(Tag(f.text)) ELSE <<>>

streakLocals == <<clock, today, yesterday, streak, processes, calls>>
Items == session.lessons + session.quizzes + session.challenges
Begin(name) == [NoOp EXCEPT !.name = name]

\* course_picker returns None: the summary, then sys.exit(0).
PickQuit ==
    /\ spc = "picker"
    /\ spc' = "summary"
    /\ UNCHANGED <<file, progress, streakLocals, rvars, mvars, pvars, vvars>>

\* course_picker returns a course that is coming soon: the notice.
PickComingSoon ==
    /\ spc = "picker"
    /\ \E c \in ComingSoon : course' = c
    /\ spc' = "coming_soon"
    /\ UNCHANGED <<file, progress, streakLocals, rvars, pvars, vvars>>
    /\ UNCHANGED <<session, module, action, pageNo, quiz, passed, summaries, op, echild>>

\* course_picker returns an available course.
PickCourse ==
    /\ spc = "picker"
    /\ \E c \in Available : course' = c
    /\ spc' = "modules"
    /\ UNCHANGED <<file, progress, streakLocals, rvars, pvars, vvars>>
    /\ UNCHANGED <<session, module, action, pageNo, quiz, passed, summaries, op, echild>>

\* module_picker returns a module, or None (back to the courses).
PickModule ==
    /\ spc = "modules"
    /\ \/ module' = "None" /\ spc' = "picker"
       \/ \E m \in ModulesOf(course) : module' = m /\ spc' = "menu"
    /\ UNCHANGED <<file, progress, streakLocals, rvars, pvars, vvars>>
    /\ UNCHANGED <<session, course, action, pageNo, quiz, passed, summaries, op, echild>>

\* module_menu returns "back".
MenuBack ==
    /\ spc = "menu"
    /\ action' = "back"
    /\ op' = NoOp
    /\ spc' = "modules"
    /\ UNCHANGED <<file, progress, streakLocals, rvars, pvars, vvars>>
    /\ UNCHANGED <<session, course, module, pageNo, quiz, passed, summaries, echild>>

\* module_menu returns "lesson": load_pages, then the notice that there are
\* no pages, or the table of contents.
MenuLesson ==
    /\ spc = "menu"
    /\ Items < MaxItems
    /\ action' = "lesson"
    /\ readme' \in LessonReadmes
    /\ pages' = load_pages(readme')
    /\ IF pages' = <<>>
       THEN spc' = "no_pages" /\ op' = [Begin("lesson") EXCEPT !.aborted = TRUE]
       ELSE spc' = "toc" /\ op' = Begin("lesson")
    /\ pageNo' = 0
    /\ UNCHANGED <<file, progress, streakLocals, rvars, vvars, ppc, segPage, segments>>
    /\ UNCHANGED <<term, noticeShown, renders, qvars>>
    /\ UNCHANGED <<session, course, module, quiz, passed, summaries, echild>>

\* Enter at a notice, or at the result of a run: back to the module menu,
\* or to the course picker after the coming-soon notice.
Acknowledge ==
    /\ spc \in {"no_pages", "coming_soon", "example_missing", "example_done", "setup_done"}
    /\ spc' = IF spc = "coming_soon" THEN "picker" ELSE "menu"
    /\ UNCHANGED <<file, progress, streakLocals, rvars, mvars, pvars, vvars>>

\* Mutant of run_lesson: Enter at the table of contents shows the last page.
run_lesson_last ==
    /\ spc \in {"toc", "page"}
    /\ IF spc = "toc" THEN pageNo' = Len(pages) /\ spc' = "page"
       ELSE IF pageNo < Len(pages) THEN pageNo' = pageNo + 1 /\ spc' = "page"
       ELSE pageNo' = pageNo /\ spc' = "mark"
    /\ UNCHANGED <<file, progress, streakLocals, rvars, pvars, vvars>>
    /\ UNCHANGED <<session, course, module, action, quiz, passed, summaries, op, echild>>

\* show_lesson_toc and run_lesson: Enter shows the next page; Enter at the
\* last page ends the lesson.
run_lesson ==
    /\ spc \in {"toc", "page"}
    /\ IF spc = "toc" THEN pageNo' = 1 /\ spc' = "page"
       ELSE IF pageNo < Len(pages) THEN pageNo' = pageNo + 1 /\ spc' = "page"
       ELSE pageNo' = pageNo /\ spc' = "mark"
    /\ UNCHANGED <<file, progress, streakLocals, rvars, pvars, vvars>>
    /\ UNCHANGED <<session, course, module, action, quiz, passed, summaries, op, echild>>

\* module_menu returns "quiz".
MenuQuiz ==
    /\ spc = "menu"
    /\ Items < MaxItems
    /\ action' = "quiz"
    /\ op' = Begin("quiz")
    /\ spc' = "quiz"
    /\ UNCHANGED <<file, progress, streakLocals, rvars, pvars, vvars>>
    /\ UNCHANGED <<session, course, module, pageNo, quiz, passed, summaries, echild>>

\* run_quiz returns (score, total).
run_quiz ==
    /\ spc = "quiz"
    /\ \E score \in 0..MaxQuestions : quiz' = [score |-> score, total |-> MaxQuestions]
    /\ spc' = "mark"
    /\ UNCHANGED <<file, progress, streakLocals, rvars, pvars, vvars>>
    /\ UNCHANGED <<session, course, module, action, pageNo, passed, summaries, op, echild>>

\* mark_lesson, mark_quiz or mark_challenge.
Mark ==
    /\ spc = "mark"
    /\ progress' = CASE action = "lesson" -> mark_lesson(progress, course, module)
                     [] action = "quiz" ->
                          mark_quiz(progress, course, module, quiz.score, quiz.total)
                     [] OTHER -> mark_challenge(progress, course, module)
    /\ op' = [op EXCEPT !.marked = @ + 1]
    /\ spc' = "save_mark"
    /\ UNCHANGED <<file, streakLocals, rvars, pvars, vvars>>
    /\ UNCHANGED <<session, course, module, action, pageNo, quiz, passed, summaries, echild>>

\* Mutant of SaveMark: the mark is not written to the file.
SaveMarkSkipped ==
    /\ spc = "save_mark"
    /\ spc' = "count"
    /\ UNCHANGED <<file, progress, streakLocals, rvars, mvars, pvars, vvars>>

\* save_progress(progress) after a mark.
SaveMark ==
    /\ spc = "save_mark"
    /\ file' = [kind |-> "ok", data |-> json_dump(progress)]
    /\ spc' = "count"
    /\ UNCHANGED <<progress, streakLocals, rvars, mvars, pvars, vvars>>

\* session[...] += 1, and back to the module menu.
CountItem ==
    /\ spc = "count"
    /\ session' = CASE action = "lesson" -> [session EXCEPT !.lessons = @ + 1]
                    [] action = "quiz" -> [session EXCEPT !.quizzes = @ + 1]
                    [] OTHER -> [session EXCEPT !.challenges = @ + 1]
    /\ spc' = "menu"
    /\ UNCHANGED <<file, progress, streakLocals, rvars, pvars, vvars>>
    /\ UNCHANGED <<course, module, action, pageNo, quiz, passed, summaries, op, echild>>

\* module_menu returns "challenge": show_challenge shows its menu.
MenuChallenge ==
    /\ spc = "menu"
    /\ HasChallenge(course, module)
    /\ Items < MaxItems
    /\ action' = "challenge"
    /\ passed' = FALSE
    /\ op' = Begin("challenge")
    /\ spc' = "challenge"
    /\ UNCHANGED <<file, progress, streakLocals, rvars, pvars, vvars>>
    /\ UNCHANGED <<session, course, module, pageNo, quiz, summaries, echild>>

\* The challenge files and outcomes of a run met in a session.
SessionChallenges ==
    {[kind |-> "missing", code |-> <<>>], [kind |-> "ok", code |-> <<"c">>], Original}
SessionBehaviours == {Hang, Exit(0, <<>>, <<>>), Exit(1, <<>>, <<>>)}
SessionGits == {g \in Gits : g.stderr = <<>>}

\* show_challenge: "validate" calls _validate_challenge.
ChallengeValidate ==
    /\ spc = "challenge"
    /\ op.spawned < MaxTries
    /\ challenge' \in SessionChallenges
    /\ behaviour' \in SessionBehaviours
    /\ vpc' = "CheckExists"
    /\ steps' = <<>>
    /\ child' = "none"
    /\ spawned' = 0
    /\ proc' = NoProc
    /\ result' = NoResult
    /\ reports' = 0
    /\ returned' = "none"
    /\ spc' = "validating"
    /\ UNCHANGED <<file, progress, streakLocals, rvars, pvars, mvars>>

\* What the return of a validation adds to the record of the visit.
Validated(o) ==
    [o EXCEPT !.spawned = @ + spawned,
              !.aborted = (@ \/ result.kind = "NotFound"),
              !.passes = @ + (IF returned = "True" THEN 1 ELSE 0),
              !.after = (@ \/ (o.passes >= 1 /\ returned # "True"))]

\* Mutant of ValidateReturns: passed is what the last validation returned.
ValidateReturnsLast ==
    /\ spc = "validating"
    /\ vpc = "Done"
    /\ passed' = (returned = "True")
    /\ op' = Validated(op)
    /\ challenge' = [kind |-> "missing", code |-> <<>>]
    /\ behaviour' = [hangs |-> TRUE, returncode |-> 0, stdout |-> <<>>, stderr |-> <<>>]
    /\ vpc' = "Idle"
    /\ steps' = <<>>
    /\ child' = "none"
    /\ spawned' = 0
    /\ proc' = [returncode |-> 0, stdout |-> <<>>, stderr |-> <<>>]
    /\ result' = [kind |-> "None", count |-> 0, text |-> <<>>]
    /\ reports' = 0
    /\ returned' = "none"
    /\ spc' = "challenge"
    /\ UNCHANGED <<file, progress, streakLocals, rvars, pvars>>
    /\ UNCHANGED <<session, course, module, action, pageNo, quiz, summaries, echild>>

\* _validate_challenge has returned: passed = True if it returned True.
ValidateReturns ==
    /\ spc = "validating"
    /\ vpc = "Done"
    /\ passed' = (passed \/ returned = "True")
    /\ op' = Validated(op)
    /\ challenge' = [kind |-> "missing", code |-> <<>>]
    /\ behaviour' = [hangs |-> TRUE, returncode |-> 0, stdout |-> <<>>, stderr |-> <<>>]
    /\ vpc' = "Idle"
    /\ steps' = <<>>
    /\ child' = "none"
    /\ spawned' = 0
    /\ proc' = [returncode |-> 0, stdout |-> <<>>, stderr |-> <<>>]
    /\ result' = [kind |-> "None", count |-> 0, text |-> <<>>]
    /\ reports' = 0
    /\ returned' = "none"
    /\ spc' = "challenge"
    /\ UNCHANGED <<file, progress, streakLocals, rvars, pvars>>
    /\ UNCHANGED <<session, course, module, action, pageNo, quiz, summaries, echild>>

\* show_challenge: "reset" calls _reset_challenge.
ChallengeReset ==
    /\ spc = "challenge"
    /\ op.spawned < MaxTries
    /\ challenge' \in SessionChallenges
    /\ git' \in SessionGits
    /\ rpc' = "CheckExists"
    /\ checkouts' = 0
    /\ rmsgs' = <<>>
    /\ spc' = "resetting"
    /\ UNCHANGED <<file, progress, streakLocals, pvars, mvars>>
    /\ UNCHANGED <<behaviour, vpc, steps, child, spawned, proc, result, reports, returned>>

\* _reset_challenge has returned.
ResetReturns ==
    /\ spc = "resetting"
    /\ rpc = "Done"
    /\ op' = [op EXCEPT !.spawned = @ + (IF git.found THEN checkouts ELSE 0),
                        !.aborted = (@ \/ rmsgs = <<Message("NotFound")>>),
                        !.after = (@ \/ op.passes >= 1)]
    /\ rpc' = "Idle"
    /\ git' = [found |-> FALSE, returncode |-> 0, stderr |-> <<>>]
    /\ checkouts' = 0
    /\ rmsgs' = <<>>
    /\ challenge' = [kind |-> "missing", code |-> <<>>]
    /\ UNCHANGED <<behaviour, vpc, steps, child, spawned, proc, result, reports, returned>>
    /\ spc' = "challenge"
    /\ UNCHANGED <<file, progress, streakLocals, pvars>>
    /\ UNCHANGED <<session, course, module, action, pageNo, quiz, passed, summaries, echild>>

\* show_challenge: "back" returns passed; main marks the challenge if it
\* is True.
ChallengeBack ==
    /\ spc = "challenge"
    /\ spc' = IF passed THEN "mark" ELSE "count"
    /\ UNCHANGED <<file, progress, streakLocals, rvars, mvars, pvars, vvars>>

\* run_examples, from the script on: the script is not there, or it is run.
RunScript(o) ==
    \/ spc' = "example_missing" /\ op' = [o EXCEPT !.aborted = TRUE] /\ echild' = "none"
    \/ spc' = "example_running" /\ op' = [o EXCEPT !.spawned = @ + 1] /\ echild' = "running"

\* module_menu returns "examples": run_examples asks which script if there
\* are several.
MenuExamples ==
    /\ spc = "menu"
    /\ ExamplesOf(course, module) > 0
    /\ action' = "examples"
    /\ IF ExamplesOf(course, module) > 1
       THEN spc' = "example_pick" /\ op' = Begin("examples") /\ echild' = "none"
       ELSE RunScript(Begin("examples"))
    /\ UNCHANGED <<file, progress, streakLocals, rvars, pvars, vvars>>
    /\ UNCHANGED <<session, course, module, pageNo, quiz, passed, summaries>>

\* run_examples: a script is selected, or Back.
ExamplePick ==
    /\ spc = "example_pick"
    /\ \/ spc' = "menu" /\ UNCHANGED <<op, echild>>
       \/ RunScript(op)
    /\ UNCHANGED <<file, progress, streakLocals, rvars, pvars, vvars>>
    /\ UNCHANGED <<session, course, module, action, pageNo, quiz, passed, summaries>>

\* module_menu returns "setup": run_setup runs make.
MenuSetup ==
    /\ spc = "menu"
    /\ HasSetup(course, module)
    /\ action' = "setup"
    /\ op' = [Begin("setup") EXCEPT !.spawned = 1]
    /\ echild' = "running"
    /\ spc' = "setup_running"
    /\ UNCHANGED <<file, progress, streakLocals, rvars, pvars, vvars>>
    /\ UNCHANGED <<session, course, module, pageNo, quiz, passed, summaries>>

\* subprocess.run returns: the outcome is printed.
SubprocessExits ==
    /\ spc \in {"example_running", "setup_running"}
    /\ echild' = "exited"
    /\ spc' = IF spc = "example_running" THEN "example_done" ELSE "setup_done"
    /\ UNCHANGED <<file, progress, streakLocals, rvars, pvars, vvars>>
    /\ UNCHANGED <<session, course, module, action, pageNo, quiz, passed, summaries, op>>

\* subprocess.run(timeout=120) raises TimeoutExpired: neither run_examples
\* and run_setup nor main catch it.
SubprocessTimeout ==
    /\ spc \in {"example_running", "setup_running"}
    /\ echild' = "killed"
    /\ spc' = "crashed"
    /\ UNCHANGED <<file, progress, streakLocals, rvars, pvars, vvars>>
    /\ UNCHANGED <<session, course, module, action, pageNo, quiz, passed, summaries, op>>

InTry == spc \notin {"load", "today", "yesterday", "apply", "save", "summary_handler"}

\* Ctrl-C: inside the try block of main the handler shows the summary and
\* exits; before it, and in the handler itself, nothing catches it. The
\* calls under way are unwound and a running child dies with the signal.
KeyboardInterrupt ==
    /\ spc \notin {"exited", "crashed"}
    /\ spc' = IF InTry THEN "summary_handler" ELSE "crashed"
    /\ echild' = IF echild = "running" THEN "interrupted" ELSE echild
    /\ child' = IF child = "running" THEN "interrupted" ELSE child
    /\ vpc' = "Idle"
    /\ rpc' = "Idle"
    /\ UNCHANGED <<file, progress, streakLocals, pvars, git, checkouts, rmsgs>>
    /\ UNCHANGED <<challenge, behaviour, steps, spawned, proc, result, reports, returned>>
    /\ UNCHANGED <<session, course, module, action, pageNo, quiz, passed, summaries, op>>

\* _show_session_summary(session); sys.exit(0)
Summary ==
    /\ spc \in {"summary", "summary_handler"}
    /\ summaries' = summaries + 1
    /\ spc' = "exited"
    /\ UNCHANGED <<file, progress, streakLocals, rvars, pvars, vvars>>
    /\ UNCHANGED <<session, course, module, action, pageNo, quiz, passed, op, echild>>

NextSession ==
    \/ LoadProgress \/ update_streak \/ save_progress
    \/ PickQuit \/ PickComingSoon \/ PickCourse \/ PickModule
    \/ MenuBack \/ MenuLesson \/ MenuQuiz
    \/ Acknowledge \/ run_lesson \/ run_quiz
    \/ Mark \/ SaveMark \/ CountItem
    \/ MenuChallenge \/ ChallengeValidate \/ _validate_challenge \/ ValidateReturns
    \/ ChallengeReset \/ _reset_challenge \/ ResetReturns \/ ChallengeBack
    \/ MenuExamples \/ ExamplePick \/ MenuSetup \/ SubprocessExits \/ SubprocessTimeout
    \/ KeyboardInterrupt
    \/ Summary

\* A progress document of an earlier session: a lesson and a quiz of module
\* m1 of course a, and an entry of a course that is no longer offered.
EarlierCourses ==
    [c \in {"a", "z"} |->
        IF c = "a" THEN [m \in {"m1"} |-> [lesson |-> TRUE, quiz_score |-> ScoreText(1, 1)]]
        ELSE [m \in {"m9"} |-> [challenge |-> TRUE]]]

SessionFiles ==
    {[kind |-> "absent", data |-> <<>>], [kind |-> "array", data |-> <<>>]}
    \cup {[kind |-> "ok", data |-> [courses |-> <<>>, last_active |-> isoformat(0), streak |-> 1]],
          [kind |-> "ok", data |-> [courses |-> EarlierCourses, last_active |-> isoformat(-1),
                                    streak |-> 1]]}

InitSession ==
    /\ file \in SessionFiles
    /\ clock = 0
    /\ progress = <<>>
    /\ spc = "load"
    /\ today = ""
    /\ yesterday = ""
    /\ streak = 0
    /\ processes = 1
    /\ calls = <<>>
    /\ IdleSession
    /\ IdlePipeline
    /\ IdleValidate
    /\ IdleReset

\* A call of _reset_challenge on any challenge file.
InitReset ==
    /\ challenge \in Challenges
    /\ git \in Gits
    /\ rpc = "CheckExists"
    /\ checkouts = 0
    /\ rmsgs = <<>>
    /\ behaviour = Hang
    /\ vpc = "Idle"
    /\ steps = <<>>
    /\ child = "none"
    /\ spawned = 0
    /\ proc = NoProc
    /\ result = NoResult
    /\ reports = 0
    /\ returned = "none"
    /\ IdlePipeline
    /\ IdleProgress
    /\ IdleSession

vars == <<pvars, vvars, svars, mvars, rvars>>

SpecParse == InitParse /\ [][NextParse]_vars

SpecSegments == InitSegments /\ [][NextParse]_vars

SpecValidate == InitValidate /\ [][_validate_challenge]_vars

SpecRun == InitRun /\ [][_validate_challenge]_vars

SpecEdit == InitEdit /\ [][NextEdit]_vars

SpecQuiz == InitQuiz /\ [][NextQuiz]_vars

SpecStreak == InitStreak /\ [][NextStreak]_vars

SpecCalls == InitStreak /\ [][NextCalls]_vars

SpecSession == InitSession /\ [][NextSession]_vars

SpecReset == InitReset /\ [][_reset_challenge]_vars

SpecRender == InitRender /\ [][NextRender]_vars

(***************************************************************************)
(* Claims about the marker parser and the page segmentation.               *)
(***************************************************************************)
Range(f) == {f[i] : i \in DOMAIN f}

\* The README as read, every token with its offset.
SourceText == Tag(readme.text)

Parsed == ppc \in {"parsed", "split"} /\ readme.kind = "ok"

\* The page markers of a text: the matches of PAGE_MARKER, leftmost first.
RECURSIVE PageMarkersOf(_, _)
PageMarkersOf(t, i) ==
    IF i > Len(t) THEN <<>>
    ELSE LET m == PAGE_MARKER(t, i)
         IN  IF m.end = 0 THEN PageMarkersOf(t, i + 1)
             ELSE <<[start |-> i, end |-> m.end, gs |-> m.gs, ge |-> m.ge]>>
                  \o PageMarkersOf(t, m.end)

\* Where the body of the k-th marker ends: at the next marker or at the end.
BodyEnd(t, M, k) == IF k < Len(M) THEN M[k + 1].start ELSE Len(t) + 1
BodyOf(t, M, k) == Slice(t, M[k].end, BodyEnd(t, M, k))
Blank(t) == \A i \in 1..Len(t) : IsSpace(t[i].c)

\* The markers whose body is not only whitespace, in source order.
KeptMarkers(t, M) ==
    LET Keep(k) == ~Blank(BodyOf(t, M, k))
    IN  SelectSeq([k \in 1..Len(M) |-> k], Keep)

\* C1: parse_readme returns exactly the marker segments (before any end
\* marker) whose body is non-empty after trimming, in source order: as
\* many pages as such markers, page j with the trimmed title of the j-th
\* of them and a content that starts inside that marker's body; segments
\* of whitespace only are omitted.
C1_PagesAreNonEmptySegments ==
    Parsed =>
        LET t == Truncate(SourceText)
            M == PageMarkersOf(t, 1)
            kept == KeptMarkers(t, M)
        IN  /\ Len(pages) = Len(kept)
            /\ \A j \in 1..Len(pages) :
                  LET k == kept[j]
                  IN  /\ pages[j].title = Strip(Slice(t, M[k].gs, M[k].ge))
                      /\ pages[j].content # <<>>
                      /\ pages[j].content[1].p >= M[k].end
                      /\ pages[j].content[1].p < BodyEnd(t, M, k)

\* Three markers, the second with an empty body: two pages.
C1_Witness ==
    /\ Parsed
    /\ Len(PageMarkersOf(Truncate(SourceText), 1)) = 3
    /\ Len(pages) = 2

\* The start of the first page marker of a text (0: none).
FirstPageStart(t) ==
    LET M == PageMarkersOf(t, 1) IN IF M = <<>> THEN 0 ELSE M[1].start

\* C2: no returned page holds text that lies before the first page marker
\* or at or after the first end marker of the document.
C2_PagesLieBetweenMarkers ==
    Parsed =>
        LET first == FirstPageStart(SourceText)
            e == EndSearch(SourceText)
        IN  \A j \in 1..Len(pages) :
              \A tok \in Range(pages[j].title) \cup Range(pages[j].content) :
                  /\ first # 0
                  /\ tok.p >= first
                  /\ e # 0 => tok.p < e

\* Text before the first marker, a page, the end marker and a page marker
\* behind it.
C2_Witness ==
    /\ Parsed
    /\ FirstPageStart(SourceText) > 1
    /\ EndSearch(SourceText) # 0
    /\ \E i \in EndSearch(SourceText)..Len(SourceText) : PAGE_MARKER(SourceText, i).end # 0
    /\ Len(pages) = 1

\* C3: parse_readme returns the empty sequence, and does not raise, when
\* the file does not exist and when the document, cut at the end marker,
\* holds no page marker.
C3_EmptyWithoutMarkers ==
    (/\ ppc # "start"
     /\ \/ readme.kind = "missing"
        \/ readme.kind = "ok" /\ PageMarkersOf(Truncate(SourceText), 1) = <<>>)
    => ppc # "raised" /\ pages = <<>>

\* A document whose only page marker stands behind the end marker.
C3_Witness ==
    /\ ppc = "parsed"
    /\ readme.kind = "ok"
    /\ PageMarkersOf(SourceText, 1) # <<>>
    /\ PageMarkersOf(Truncate(SourceText), 1) = <<>>
    /\ pages = <<>>

\* The segments a body stands for: its text between the image references
\* (blank lines collapsed, trimmed, dropped when empty) and one (alt,
\* resolved path) pair per image reference, in the order of the source.
TextSegment(chunk) ==
    LET c == Untag(Strip(CollapseBlankLines(chunk, 0)))
    IN  IF c # <<>> THEN <<[type |-> "text", value |-> c]>> ELSE <<>>

RECURSIVE SegmentsOfBody(_, _, _)
SegmentsOfBody(t, from, i) ==
    IF i > Len(t) THEN TextSegment(Slice(t, from, Len(t) + 1))
    ELSE LET m == IMAGE_LINE(t, i)
         IN  IF m.end = 0 THEN SegmentsOfBody(t, from, i + 1)
             ELSE TextSegment(Slice(t, from, i))
                  \o <<[type |-> "image",
                        value |-> <<Untag(m.alt),
                                    NormPath(PathJoin(readme_dir, Untag(m.path)))>>]>>
                  \o SegmentsOfBody(t, m.end, m.end)

UntagSegment(g) ==
    IF g.type = "text" THEN [type |-> "text", value |-> Untag(g.value)]
    ELSE [type |-> "image", value |-> <<Untag(g.value[1]), Untag(g.value[2])>>]

\* The body of the source the page was made of.
SourceBody(page) ==
    LET t == Truncate(SourceText)
        M == PageMarkersOf(t, 1)
        k == CHOOSE k \in 1..Len(M) :
                 page.content[1].p >= M[k].end /\ page.content[1].p < BodyEnd(t, M, k)
    IN  BodyOf(t, M, k)

SegmentsAgree ==
    [i \in 1..Len(segments) |-> UntagSegment(segments[i])]
        = SegmentsOfBody(SourceBody(pages[segPage]), 1, 1)

\* C4 as stated: for every page content produced by parse_readme,
\* _split_page_segments yields the text chunks and the (alt, path) pairs of
\* the rewritten image references in their original order, none lost,
\* duplicated or reordered.
C4_SegmentsRoundTrip == ppc = "split" => SegmentsAgree

\* C4 amended: the same, for every document that does not hold the
\* delimiter character itself.
C4_SegmentsRoundTripNoDelimiter ==
    (ppc = "split" /\ IMG_DELIM \notin Range(readme.text)) => SegmentsAgree

\* Two image references with text between them, in a document free of the
\* delimiter.
C4_Witness ==
    /\ ppc = "split"
    /\ IMG_DELIM \notin Range(readme.text)
    /\ Len(segments) = 3
    /\ segments[1].type = "image"
    /\ segments[2].type = "text"
    /\ segments[3].type = "image"
    /\ Untag(segments[3].value[2]) = <<"/", "q">>

(***************************************************************************)
(* Claims about the challenge validator.                                   *)
(***************************************************************************)
Stepped(name) == \E i \in 1..Len(steps) : steps[i] = name

\* C5: the challenge file is never run as a subprocess when it is missing
\* or when the placeholder still occurs in the comment-stripped source:
\* CheckExists and CheckPlaceholders precede Execute, a missing file ends
\* in the not-found report and remaining placeholders end in Incomplete,
\* both returning False with no process spawned.
C5_NoRunBeforeChecks ==
    LET missing == challenge.kind = "missing"
        remaining == challenge.kind = "ok" /\ Count(_strip_comments(challenge.code)) > 0
    IN  /\ (missing \/ remaining) => spawned = 0 /\ child = "none" /\ ~Stepped("Execute")
        /\ Stepped("Execute") =>
              SubSeq(steps, 1, 3) = <<"CheckExists", "CheckPlaceholders", "Execute">>
        /\ (vpc = "Done" /\ missing) => result.kind = "NotFound" /\ returned = "False"
        /\ (vpc = "Done" /\ remaining) => result.kind = "Incomplete" /\ returned = "False"

\* A call that ended in Incomplete after both checks, nothing spawned.
C5_Witness ==
    /\ vpc = "Done"
    /\ result.kind = "Incomplete"
    /\ steps = <<"CheckExists", "CheckPlaceholders">>
    /\ spawned = 0

\* The lexical structure of Python source: from position i in state st
\* ("code", "comment", <<"string", q>>, <<"docstring", q>>), the number of
\* placeholders in code proper (n), the number inside ordinary string
\* literals (s), and whether every string of the file is closed (ok).
IsQuote(c) == c \in {"\"", "'"}

RECURSIVE Lex(_, _, _, _)
Lex(t, i, kind, q) ==
    IF i > Len(t) THEN [n |-> 0, s |-> 0, ok |-> kind \in {"code", "comment"}]
    ELSE LET c == t[i]
             Add(r) == [r EXCEPT !.n = @ + 1]
             AddS(r) == [r EXCEPT !.s = @ + 1]
             Bad(r) == [r EXCEPT !.ok = FALSE]
         IN  CASE kind = "code" ->
                    IF IsQuote(c)
                    THEN IF TripleAt(t, i, c) THEN Lex(t, i + 3, "docstring", c)
                         ELSE Lex(t, i + 1, "string", c)
                    ELSE IF c = "#" THEN Lex(t, i + 1, "comment", q)
                    ELSE IF c = PLACEHOLDER THEN Add(Lex(t, i + 1, "code", q))
                    ELSE Lex(t, i + 1, "code", q)
               [] kind = "comment" ->
                    IF c = "\n" THEN Lex(t, i + 1, "code", q)
                    ELSE Lex(t, i + 1, "comment", q)
               [] kind = "string" ->
                    IF c = q THEN Lex(t, i + 1, "code", q)
                    ELSE IF c = "\n" THEN Bad(Lex(t, i + 1, "code", q))
                    ELSE IF c = PLACEHOLDER THEN AddS(Lex(t, i + 1, "string", q))
                    ELSE Lex(t, i + 1, "string", q)
               [] OTHER ->
                    IF TripleAt(t, i, q) THEN Lex(t, i + 3, "code", q)
                    ELSE Lex(t, i + 1, "docstring", q)

\* Placeholders of the file that stand in code: outside comments,
\* docstrings and string literals.
CodePlaceholders == Lex(challenge.code, 1, "code", "\"").n
\* Placeholders of the file inside ordinary string literals.
StringPlaceholders == Lex(challenge.code, 1, "code", "\"").s
\* The file is lexically well formed: every string and docstring is closed.
WellFormed == Lex(challenge.code, 1, "code", "\"").ok

Scanned ==
    challenge.kind = "ok" /\ vpc \notin {"CheckExists", "CheckPlaceholders", "CountPlaceholders"}

\* C6: if the placeholder occurs in code, outside every comment and
\* docstring region, the validator reports Incomplete and does not run the
\* file, whatever comments, docstrings and quotes stand elsewhere in the
\* file.
C6_CodePlaceholderIsIncomplete ==
    (Scanned /\ WellFormed /\ CodePlaceholders >= 1)
    => vpc = "Done" /\ result.kind = "Incomplete" /\ spawned = 0

\* C7: placeholders in triple-quoted regions and line comments are not
\* counted: a file whose placeholders are all in comments and docstrings
\* is complete and goes on to execution, a file with k >= 1 in code reports
\* Incomplete(k).
C7_CountsCodePlaceholders ==
    (Scanned /\ WellFormed /\ StringPlaceholders = 0)
    => IF CodePlaceholders = 0
       THEN result.kind # "Incomplete" /\ (vpc = "Done" => Stepped("Execute"))
       ELSE result.kind = "Incomplete" /\ result.count = CodePlaceholders

\* The character at position i of a text.
RECURSIVE CharAt(_, _)
CharAt(t, i) ==
    IF t = <<>> THEN "EOF"
    ELSE IF i <= Head(t).n THEN Head(t).c
    ELSE CharAt(Tail(t), i - Head(t).n)

SameText(a, b) ==
    /\ TextLen(a) = TextLen(b)
    /\ \A i \in 1..TextLen(a) : CharAt(a, i) = CharAt(b, i)

\* shown is full, cut to MAX_ERROR characters and followed by the
\* truncation marker when full is longer.
IsCutOf(shown, full) ==
    IF TextLen(full) <= MAX_ERROR THEN SameText(shown, full)
    ELSE /\ TextLen(shown) = MAX_ERROR + 4
         /\ \A i \in 1..MAX_ERROR : CharAt(shown, i) = CharAt(full, i)
         /\ CharAt(shown, MAX_ERROR + 1) = "\n"
         /\ \A i \in 2..4 : CharAt(shown, MAX_ERROR + i) = "."

Finished == vpc = "Done" /\ child = "exited"

PassedOnZero ==
    (Finished /\ proc.returncode = 0)
    => /\ result.kind = "Passed"
       /\ SameText(result.text, StripText(proc.stdout))
       /\ returned = "True"

\* C8 as stated: when the subprocess finishes in time, exit code zero gives
\* Passed with the trimmed stdout (True); any other exit code gives Failed
\* (False) whose error text is stderr if non-empty, otherwise stdout (as it
\* is or trimmed), cut to 800 characters and the marker when longer.
C8_FailedShowsStderrIfNonEmpty ==
    /\ PassedOnZero
    /\ (Finished /\ proc.returncode # 0)
       => /\ result.kind = "Failed"
          /\ returned = "False"
          /\ LET chosen == IF proc.stderr # <<>> THEN proc.stderr ELSE proc.stdout
             IN  IsCutOf(result.text, chosen) \/ IsCutOf(result.text, StripText(chosen))

\* C8 amended: the error text is the trimmed stderr if that is non-empty,
\* otherwise the trimmed stdout, cut to 800 characters and the marker when
\* longer.
C8_FailedShowsTrimmedStderrIfNonEmpty ==
    /\ PassedOnZero
    /\ (Finished /\ proc.returncode # 0)
       => /\ result.kind = "Failed"
          /\ returned = "False"
          /\ LET chosen == IF StripText(proc.stderr) # <<>> THEN StripText(proc.stderr)
                           ELSE StripText(proc.stdout)
             IN  IsCutOf(result.text, chosen)

\* A failed run with a blank stderr and a stdout of more than 800
\* characters: the error shown is the cut stdout.
C8_Witness ==
    /\ Finished
    /\ proc.returncode # 0
    /\ proc.stderr # <<>>
    /\ StripText(proc.stderr) = <<>>
    /\ result.kind = "Failed"
    /\ TextLen(result.text) = MAX_ERROR + 4

\* C9: if the subprocess exceeds the timeout the call reports Timeout
\* exactly once, returns False, has run the file once only, and the child
\* is no longer running when Timeout is reported.
C9_TimeoutReportedOnce ==
    /\ (vpc = "Done" /\ Stepped("Execute") /\ behaviour.hangs)
       => result.kind = "Timeout" /\ returned = "False"
    /\ result.kind = "Timeout"
       => /\ vpc = "Done"
          /\ reports = 1
          /\ spawned = 1
          /\ child # "running"
          /\ ~Stepped("Classify")

C9_Witness ==
    /\ vpc = "Done"
    /\ behaviour.hangs
    /\ result.kind = "Timeout"
    /\ child = "killed"

(***************************************************************************)
(* Claims about the daily streak.                                          *)
(***************************************************************************)
\* The three rules for a document before (b) and after (a) the call, the
\* value r it returns, and today being day T.
StreakRule(b, a, r, T) ==
    /\ r = a["streak"]
    /\ IF b["last_active"] = isoformat(T) THEN a = b
       ELSE IF b["last_active"] = isoformat(T - 1)
       THEN a = [b EXCEPT !["streak"] = @ + 1, !["last_active"] = isoformat(T)]
       ELSE a = [b EXCEPT !["streak"] = 1, !["last_active"] = isoformat(T)]

\* The days the clock showed during the call of update_streak.
CallDays == {T \in 0..MaxDay : isoformat(T) = today \/ isoformat(T - 1) = yesterday}

\* C10: update_streak applies exactly one of three rules by comparing
\* last_active with today: equal to today leaves the document unchanged,
\* equal to yesterday increments streak, any other value sets streak to 1;
\* in the latter two cases last_active becomes today; the value returned is
\* the stored streak. (The document before the call is the one loaded from
\* the file, which is not written until the call has returned.)
C10_OneOfThreeRules ==
    spc = "save" => \E T \in CallDays : StreakRule(load_progress(file), progress, streak, T)

\* C11: calling update_streak again on a day on which it has been called
\* (in the same process, or in a later process that reloads the saved file)
\* never increments twice: every call after the first of a day returns what
\* the first returned and leaves the document unchanged.
C11_NoDoubleIncrement ==
    \A i, j \in 1..Len(calls) :
        (i < j /\ calls[i].day = calls[j].day)
        => /\ calls[j].returned = calls[i].returned
           /\ calls[j].after = calls[j].before
           /\ calls[j].after = calls[i].after

\* A streak was incremented by the first call of a day, and a second call
\* was made on that day.
C11_Witness ==
    \E i, j \in 1..Len(calls) :
        /\ i < j
        /\ calls[i].day = calls[j].day
        /\ calls[i].before["last_active"] # calls[i].day
        /\ calls[i].returned >= 2

\* C12: once update_streak has been applied to a document returned by
\* load_progress, streak is a positive integer, the value update_streak
\* returned is that streak, and last_active is a calendar date string
\* (today), never null.
C12_StreakPositive ==
    spc \in {"save", "picker"}
    => /\ progress["streak"] >= 1
       /\ streak = progress["streak"]
       /\ progress["last_active"] = today
       /\ \E n \in 0..MaxDay : progress["last_active"] = isoformat(n)

\* C13: load_progress never raises: for an absent file and for content
\* that is not valid JSON it returns the default document; for a valid
\* file it returns every top-level key, the missing ones with their
\* defaults and the present ones as they are in the file.
C13_LoadNeverRaises ==
    /\ spc # "crashed"
    /\ (spc = "today" /\ file.kind \in {"absent", "unreadable", "binary", "corrupt"})
       => progress = default
    /\ (spc = "today" /\ file.kind \in {"array", "ok"})
       => /\ DOMAIN progress = DOMAIN default
          /\ \A k \in DOMAIN default :
                progress[k] = IF k \in DOMAIN file.data THEN json_load(file.data)[k]
                              ELSE default[k]

(***************************************************************************)
(* Claims about the marks and the session loop.                            *)
(***************************************************************************)
\* The mark the session is applying, applied to document d.
SameMark(d) ==
    CASE action = "lesson" -> mark_lesson(d, course, module)
      [] action = "quiz" -> mark_quiz(d, course, module, quiz.score, quiz.total)
      [] OTHER -> mark_challenge(d, course, module)

MarkedField ==
    CASE action = "lesson" -> "lesson" [] action = "quiz" -> "quiz_score" [] OTHER -> "challenge"

\* Every course, module and field of document b is in document a, with the
\* value it has in b, but for field k of module m of course c.
KeepsEntries(b, a, c, m, k) ==
    \A c2 \in DOMAIN b["courses"] :
        /\ c2 \in DOMAIN a["courses"]
        /\ \A m2 \in DOMAIN b["courses"][c2] :
              /\ m2 \in DOMAIN a["courses"][c2]
              /\ \A k2 \in DOMAIN b["courses"][c2][m2] :
                    /\ k2 \in DOMAIN a["courses"][c2][m2]
                    /\ <<c2, m2, k2>> # <<c, m, k>>
                       => a["courses"][c2][m2][k2] = b["courses"][c2][m2][k2]

\* C14: the marks are idempotent: a mark creates the course and module
\* entries only if they are absent and replaces no entry, and the same mark
\* applied a second time leaves the document as the first left it.
C14_MarksIdempotent ==
    [][(spc = "mark" /\ spc' = "save_mark")
       => /\ KeepsEntries(progress, progress', course, module, MarkedField)
          /\ DOMAIN progress'["courses"] = DOMAIN progress["courses"] \cup {course}
          /\ DOMAIN progress'["courses"][course]
               = DOMAIN Get(progress["courses"], course, <<>>) \cup {module}
          /\ SameMark(progress') = progress'
          /\ (MarkedField \in DOMAIN get_module_progress(progress, course, module)
              /\ get_module_progress(progress, course, module)[MarkedField]
                   = get_module_progress(progress', course, module)[MarkedField])
             => progress' = progress]_vars

\* A lesson mark has been applied to a module whose lesson was marked
\* before: the document is still the one in the file.
C14_Witness ==
    /\ spc = "save_mark"
    /\ action = "lesson"
    /\ file.kind = "ok"
    /\ "quiz_score" \in DOMAIN get_module_progress(progress, course, module)
    /\ json_load(file.data) = progress

\* The quiz score stored for module m of course c, "" if none.
StoredScore(d, c, m) == Get(get_module_progress(d, c, m), "quiz_score", "")

\* C15: the stored quiz_score of a module is the "score/total" string of
\* the most recent attempt on it: every attempt overwrites the score, a
\* lower one too, and nothing else changes it.
C15_LastQuizScoreWins ==
    [][\A c \in Available : \A m \in ModulesOf(c) :
          /\ (spc = "mark" /\ spc' = "save_mark" /\ action = "quiz"
              /\ c = course /\ m = module)
             => StoredScore(progress', c, m)
                  = ToString(quiz.score) \o "/" \o ToString(quiz.total)
          /\ (spc # "load" /\ StoredScore(progress', c, m) # StoredScore(progress, c, m))
             => (spc = "mark" /\ action = "quiz" /\ c = course /\ m = module)]_vars

\* A score of 0/1 has overwritten the 1/1 that is still in the file.
C15_Witness ==
    /\ spc = "save_mark"
    /\ action = "quiz"
    /\ file.kind = "ok"
    /\ StoredScore(json_load(file.data), course, module) = "1/1"
    /\ StoredScore(progress, course, module) = "0/1"

\* The session waits for a selection in the course picker, the module
\* picker or the module menu.
AtPrompt == spc \in {"picker", "modules", "menu"}

\* C16: whenever the session waits for a menu selection, the progress file
\* holds exactly the in-memory progress document.
C16_FileIsProgressAtPrompts ==
    AtPrompt => file.kind = "ok" /\ json_load(file.data) = progress /\ file.data = json_dump(progress)

\* Back at the module menu after a quiz whose score was marked and saved.
C16_Witness ==
    /\ spc = "menu"
    /\ session.quizzes = 1
    /\ StoredScore(progress, course, module) = "1/1"
    /\ file.kind = "ok"
    /\ StoredScore(json_load(file.data), course, module) = "1/1"


\* The session loop of main is running: startup is over and the process has
\* neither left the loop for the interrupt handler nor ended.
InLoop == InTry /\ spc \notin {"exited", "crashed"}

\* C17: the process leaves the session loop only on the summary-and-exit
\* path: no step taken inside the loop ends the process without the
\* summary and the exit status 0.
C17_OneTerminationPath ==
    [][InLoop => spc' # "crashed"]_vars


\* C19: when an example script runs into its timeout, the run is reported
\* as failed and the session goes on: the step that ends the child on the
\* timeout leads to the result of the run, from where Enter returns to the
\* module menu.
C19_ExampleTimeoutHandled ==
    [][(spc = "example_running" /\ echild' = "killed") => spc' = "example_done"]_vars


\* Nothing of the progress document, of the file or of the session counters
\* changes in the step.
NothingRecorded == UNCHANGED <<progress, file, session>>

\* C18: a missing resource is not fatal. A lesson without pages and an
\* absent example script are answered with a notice, from which the session
\* returns to the module menu; an absent challenge file makes the
\* validation report it once and return False to the challenge menu. In
\* each case nothing is marked or saved, no subprocess is started, and the
\* process does not end.
C18_MissingResourceNotFatal ==
    [][/\ (spc = "menu" /\ spc' \in {"no_pages", "example_missing"})
          => op'.aborted /\ op'.spawned = 0 /\ echild' # "running" /\ NothingRecorded
       /\ (spc = "example_pick" /\ spc' = "example_missing")
          => op'.aborted /\ op'.spawned = 0 /\ echild' # "running" /\ NothingRecorded
       /\ (spc \in {"no_pages", "example_missing"} /\ spc' # "summary_handler")
          => spc' = "menu" /\ op' = op /\ NothingRecorded
       /\ (spc = "validating" /\ challenge.kind = "missing" /\ spc' # "summary_handler")
          => /\ spc' \in {"validating", "challenge"}
             /\ child' = "none" /\ spawned' = 0
             /\ NothingRecorded
             /\ spc' = "challenge"
                => /\ returned = "False" /\ reports = 1 /\ result.kind = "NotFound"
                   /\ passed' = passed
                   /\ op'.aborted /\ op'.spawned = op.spawned /\ op'.marked = 0]_vars

\* Back at the challenge menu after a validation that found no file.
C18_Witness ==
    /\ spc = "challenge"
    /\ op.name = "challenge"
    /\ op.aborted
    /\ op.spawned = 0
    /\ ~passed


\* The message _reset_challenge prints for the outcome of the checkout.
ReportsCheckout(msg) ==
    IF ~git.found THEN msg.kind = "GitNotFound"
    ELSE IF git.returncode = 0 THEN msg.kind = "Reset"
    ELSE /\ msg.kind = "ResetFailed"
         /\ SameText(msg.text, git.stderr) \/ SameText(msg.text, StripText(git.stderr))

\* C20: _reset_challenge reaches the checkout only for a file that exists
\* and holds no placeholder in code; a call that ends without a checkout
\* has printed one message that the file is missing or has nothing to
\* reset, and one that ends with a checkout has run it once and printed
\* the one message of its outcome.
C20_ResetContract ==
    /\ rpc = "Checkout" => challenge.kind = "ok" /\ (WellFormed => CodePlaceholders = 0)
    /\ rpc = "Done"
       => /\ checkouts <= 1
          /\ Len(rmsgs) = 1
          /\ IF checkouts = 1 THEN ReportsCheckout(rmsgs[1])
             ELSE rmsgs[1].kind \in {"NotFound", "NothingToReset"}


(***************************************************************************)
(* Claims about the page renderer.                                         *)
(***************************************************************************)
\* The content holds an image placeholder: the placeholder pattern matches
\* somewhere in it.
HasPlaceholder(raw) == \E i \in 1..Len(raw) : _IMG_MARKER(raw, i).end # 0

\* The page rendered by the k-th call.
RenderedPage(k) == pages[renders[k].current].content

\* Every call took the branch its page and the terminal ask for.
RightBranches ==
    \A k \in 1..Len(renders) :
        /\ renders[k].strategy \in {"panel", "native", "fallback"}
        /\ renders[k].strategy = "panel" <=> ~HasPlaceholder(RenderedPage(k))
        /\ renders[k].strategy = "native"
              <=> HasPlaceholder(RenderedPage(k)) /\ term \in {"iTerm.app", "iTerm2", "WezTerm"}
        /\ renders[k].strategy = "panel" => Len(renders[k].bar) = 1

\* C21 as stated: every render_page call uses the single panel with the
\* progress bar if and only if the page holds no image placeholder;
\* otherwise native streaming on a terminal of the native-image set and the
\* fallback panel on any other.
C21_OneOfThreeStrategies == RightBranches

\* C21 amended: the same, for pages of a document that does not hold the
\* delimiter character itself.
C21_OneOfThreeStrategiesNoDelimiter ==
    IMG_DELIM \notin Range(readme.text) => RightBranches

\* A lesson of a text page and an image page on a terminal without native
\* images: the panel, then the fallback.
C21_Witness ==
    /\ IMG_DELIM \notin Range(readme.text)
    /\ Len(renders) = 2
    /\ renders[1].strategy = "panel"
    /\ renders[2].strategy = "fallback"
    /\ HasPlaceholder(RenderedPage(2))


\* The calls that displayed the reduced-quality notice.
Noticed == {k \in 1..Len(renders) : renders[k].notice}

\* The notice was displayed at most once, and by a call that rendered a
\* page with image placeholders on a terminal without native images.
NoticeOnceForImages ==
    /\ Cardinality(Noticed) <= 1
    /\ \A k \in Noticed :
          /\ HasPlaceholder(RenderedPage(k))
          /\ term \notin {"iTerm.app", "iTerm2", "WezTerm"}

\* C22 as stated: over the render_page calls of a process the notice is
\* displayed at most once, and only after rendering a page that holds image
\* placeholders on a terminal without native image support.
C22_NoticeAtMostOnce == NoticeOnceForImages

\* C22 amended: the same, for pages of a document that does not hold the
\* delimiter character itself.
C22_NoticeAtMostOnceNoDelimiter ==
    IMG_DELIM \notin Range(readme.text) => NoticeOnceForImages

\* Two image pages rendered by the fallback: the notice came with the
\* first and not with the second.
C22_Witness ==
    /\ IMG_DELIM \notin Range(readme.text)
    /\ Len(renders) >= 2
    /\ renders[1].notice
    /\ renders[2].strategy = "fallback"
    /\ ~renders[2].notice


\* The bars drawn so far, each with the call that drew it.
Bars == {k \in 1..Len(renders) : renders[k].bar # <<>>}

C24_CountersCountCompleted ==
    [][/\ session'.challenges # session.challenges
          => session'.challenges = session.challenges + 1 /\ passed /\ op.marked = 1
       /\ session'.lessons # session.lessons
          => session'.lessons = session.lessons + 1 /\ op.marked = 1
       /\ session'.quizzes # session.quizzes
          => session'.quizzes = session.quizzes + 1 /\ op.marked = 1]_vars


(***************************************************************************)
(* Claims about the streak over several runs.                              *)
(***************************************************************************)
\* The day of the model whose date is s.
DayOf(s) == CHOOSE T \in 0..MaxDay : isoformat(T) = s

\* The number of consecutive days ending at T that are all in D.
RECURSIVE Consecutive(_, _)
Consecutive(D, T) == IF T \notin D THEN 0 ELSE 1 + Consecutive(D, T - 1)

\* The days on which a session occurred up to the j-th run.
SessionDays(j) == {DayOf(calls[i].day) : i \in 1..j}

\* C25: starting without a progress file, the streak stored by a run on day
\* d is the number of consecutive calendar days ending at d on each of
\* which a session occurred.
C25_StreakCountsConsecutiveDays ==
    (calls # <<>> /\ calls[1].before = default)
    => \A j \in 1..Len(calls) :
          calls[j].after["streak"] = Consecutive(SessionDays(j), DayOf(calls[j].day))


\* The session is in a challenge visit: show_challenge has not returned.
InVisit == spc \in {"challenge", "validating", "resetting"}

\* A step that sets a flag of the progress document or writes the file.
Records == progress' # progress \/ file' # file

\* C26: show_challenge returns True exactly if some validation of the
\* visit passed, whatever failed, was incomplete, timed out or was reset
\* after it; the challenge is marked and saved exactly after Back in such a
\* visit; and an interrupt before Back leaves nothing recorded, in the
\* visit and until the process ends.
C26_MarkedOnBackAfterPass ==
    [][/\ InVisit => (passed <=> op.passes >= 1)
       /\ (InVisit /\ spc' \notin {"challenge", "validating", "resetting", "summary_handler"})
          => /\ spc = "challenge"
             /\ spc' = IF op.passes >= 1 THEN "mark" ELSE "count"
       /\ (action = "challenge" /\ Records)
          => /\ spc \in {"mark", "save_mark"}
             /\ op.passes >= 1
             /\ spc = "mark" => progress' = mark_challenge(progress, course, module)
             /\ spc = "save_mark" => file' = [kind |-> "ok", data |-> json_dump(progress)]
       /\ (InVisit \/ spc \in {"summary_handler", "exited"}) => ~Records]_vars

\* The challenge is marked after a visit in which a validation passed and a
\* later one did not.
C26_Witness ==
    /\ spc = "save_mark"
    /\ action = "challenge"
    /\ op.passes = 1
    /\ op.after
    /\ get_module_progress(progress, course, module)["challenge"] = TRUE


\* The lesson is on the screen: its table of contents or one of its pages.
InLesson == spc \in {"toc", "page"}

\* C27: the pages of a lesson are shown once each, in order, as page 1..N
\* of N, each after a confirmation; the lesson flag is set and the lesson
\* counter incremented only after the confirmation of the last page; an
\* interrupt before it leaves the flag and the counter unchanged.
C27_LessonMarkedAfterAllPages ==
    [][/\ spc = "toc" => pageNo = 0
       /\ (InLesson /\ spc' = "page") => pageNo' = pageNo + 1 /\ pageNo' <= Len(pages)
       /\ (InLesson /\ spc' \notin {"page", "summary_handler"})
          => spc = "page" /\ pageNo = Len(pages) /\ Len(pages) >= 1 /\ spc' = "mark"
       /\ (action = "lesson" /\ (Records \/ session' # session))
          => /\ spc \in {"mark", "save_mark", "count"}
             /\ pageNo = Len(pages) /\ Len(pages) >= 1
             /\ spc = "mark" => progress' = mark_lesson(progress, course, module)
             /\ spc = "count" => session' = [session EXCEPT !.lessons = @ + 1]
       /\ (InLesson \/ spc \in {"summary_handler", "exited"})
          => ~Records /\ session' = session]_vars

\* A lesson of two pages is marked after its second page.
C27_Witness ==
    /\ spc = "save_mark"
    /\ action = "lesson"
    /\ Len(pages) = 2
    /\ pageNo = 2
    /\ get_module_progress(progress, course, module)["lesson"] = TRUE

\* C28: whenever the validator reports Incomplete(count), count >= 1, also
\* when the editor rewrites the challenge file between the validator's
\* steps; the count is the one of the text the decision was taken on, which
\* holds a placeholder.
C28_IncompleteCountPositive ==
    (vpc = "Done" /\ result.kind = "Incomplete") => result.count >= 1

\* Document a differs from document b at most in field k of module m of
\* course c: the other top-level keys, courses, modules and fields of a
\* are those of b with their values, and nothing of b is missing in a.
OnlyTarget(b, a, c, m, k) ==
    /\ KeepsEntries(b, a, c, m, k)
    /\ DOMAIN a = DOMAIN b
    /\ \A x \in DOMAIN b \ {"courses"} : a[x] = b[x]
    /\ \A c2 \in DOMAIN a["courses"] \ {c} :
          c2 \in DOMAIN b["courses"] /\ a["courses"][c2] = b["courses"][c2]
    /\ \A m2 \in DOMAIN a["courses"][c] \ {m} :
          /\ c \in DOMAIN b["courses"]
          /\ m2 \in DOMAIN b["courses"][c]
          /\ a["courses"][c][m2] = b["courses"][c][m2]
    /\ \A k2 \in DOMAIN a["courses"][c][m] \ {k} :
          /\ k2 \in DOMAIN get_module_progress(b, c, m)
          /\ a["courses"][c][m][k2] = b["courses"][c][m][k2]

\* The lesson and challenge flags that are true in document d.
Flags(d) ==
    LET cs == Get(d, "courses", <<>>)
    IN  UNION {UNION {{<<c, m, k>> : k \in {k2 \in DOMAIN cs[c][m] \cap {"lesson", "challenge"} :
                                                cs[c][m][k2] = TRUE}} :
                      m \in DOMAIN cs[c]} : c \in DOMAIN cs}

\* C29: a mark for (course, module) changes only its field of that module
\* and leaves every other course, module and field, streak and last_active
\* unchanged; update_streak leaves the courses mapping unchanged; a lesson
\* or challenge flag that is true stays true through every step of the
\* process.
C29_OperationsChangeOnlyTheirTarget ==
    [][/\ (spc = "mark" /\ spc' = "save_mark")
          => OnlyTarget(progress, progress', course, module, MarkedField)
       /\ (spc = "apply" /\ spc' = "save")
          => progress'["courses"] = progress["courses"]
       /\ Flags(progress) \subseteq Flags(progress')]_vars

\* A quiz score has been stored for a module that had a lesson flag and a
\* score, next to the entry of another course, after update_streak counted
\* the day.
C29_Witness ==
    /\ spc = "save_mark"
    /\ action = "quiz"
    /\ progress["streak"] = 2
    /\ "z" \in DOMAIN progress["courses"]
    /\ get_module_progress(progress, course, module)
         = [lesson |-> TRUE, quiz_score |-> ScoreText(0, 1)]

\* Number of questions whose selected choice is, by its original index,
\* the right one.
RightPicks == Cardinality({i \in 1..Len(picks) : picks[i] = questions[i].answer})

\* C30: run_quiz returns (score, total) with total the number of
\* questions, 0 <= score <= total and score the number of questions whose
\* selected choice has the answer index as its original index, whatever the
\* order the choices were displayed in; the review of incorrect answers is
\* offered iff score < total.
C30_QuizScore ==
    qpc = "done"
    => /\ qret.total = Len(questions)
       /\ 0 <= qret.score /\ qret.score <= qret.total
       /\ Len(picks) = Len(questions)
       /\ qret.score = RightPicks
       /\ offered <=> qret.score < qret.total

\* A quiz of two questions returned 1 of 2: the last question's right
\* choice was selected at another position than its original one, and the
\* review was offered.
C30_Witness ==
    /\ qpc = "done"
    /\ qret = [score |-> 1, total |-> 2]
    /\ picks[2] = questions[2].answer
    /\ \E pos \in 1..Len(shuffled) : shuffled[pos] = picks[2] /\ pos - 1 # picks[2]
    /\ offered

====
